---- MODULE Spec2Model ----
(***************************************************************************)
(* Graph store (App.tsx), layout engine merge protocol (ForceGraph.tsx),   *)
(* path finding (App.tsx) and generator services (geminiService) of the    *)
(* knowledge graph tool, as a state machine.                               *)
(*                                                                         *)
(* Strings are sequences of character codes, so that template strings      *)
(* (`${s}-${t}`), the JavaScript string order (s < t) and the id           *)
(* construction of add-research are computed and not assumed.              *)
(***************************************************************************)
EXTENDS Integers, Sequences, FiniteSets, TLC

\* ------------------------------------------------------------------------
\* Characters and strings
\* ------------------------------------------------------------------------
Dash == 45
Space == 32
UpperA == 65
UpperZ == 90
CaseOffset == 32

ch_a == 97
ch_b == 98
ch_c == 99
ch_d == 100
ch_e == 101

id_a == <<ch_a>>
id_b == <<ch_b>>
id_c == <<ch_c>>
id_d == <<ch_d>>
id_e == <<ch_e>>
id_a_b == <<ch_a, Dash, ch_b>>
id_b_c == <<ch_b, Dash, ch_c>>

\* the empty string stands for "no node" (selectedNode === null)
NoNode == <<>>

\* JavaScript `s < t` on strings: lexicographic on code units, a proper
\* prefix is smaller
RECURSIVE StrLess(_, _)
StrLess(s, t) ==
    IF t = <<>> THEN FALSE
    ELSE IF s = <<>> THEN TRUE
    ELSE IF Head(s) # Head(t) THEN Head(s) < Head(t)
    ELSE StrLess(Tail(s), Tail(t))

\* the template string `${s}-${t}`
PairKey(s, t) == s \o <<Dash>> \o t

\* String.prototype.toLowerCase on the modelled alphabet
ToLowerCase(s) ==
    [i \in 1..Len(s) |->
        IF s[i] >= UpperA /\ s[i] <= UpperZ THEN s[i] + CaseOffset ELSE s[i]]

\* s.replace(/\s+/g, '-'): every maximal run of white space becomes one '-'
RECURSIVE ReplaceSpaces(_, _)
ReplaceSpaces(s, inRun) ==
    IF s = <<>> THEN <<>>
    ELSE IF Head(s) = Space
         THEN (IF inRun THEN <<>> ELSE <<Dash>>) \o ReplaceSpaces(Tail(s), TRUE)
         ELSE <<Head(s)>> \o ReplaceSpaces(Tail(s), FALSE)

\* ------------------------------------------------------------------------
\* Sequence helpers
\* ------------------------------------------------------------------------
Range(f) == {f[i] : i \in DOMAIN f}

RECURSIVE SelectIdx(_, _)
\* the indices i of 1..n with Test[i], in increasing order
SelectIdx(n, Test) ==
    IF n = 0 THEN <<>>
    ELSE IF Test[n] THEN Append(SelectIdx(n - 1, Test), n)
    ELSE SelectIdx(n - 1, Test)

\* Array.prototype.filter, the predicate tabulated per index
FilterSeq(s, Test) ==
    LET idx == SelectIdx(Len(s), Test)
    IN  [k \in 1..Len(idx) |-> s[idx[k]]]

MinOf(S) == CHOOSE m \in S : \A k \in S : m <= k
MaxOf(S) == CHOOSE m \in S : \A k \in S : m >= k

\* ------------------------------------------------------------------------
\* Path finding (App.tsx)
\* ------------------------------------------------------------------------
NoPath == [found |-> FALSE, nodes |-> {}, links |-> {}]

\* an adjacency list that follows a link from its source to its target only
RECURSIVE Adjacency_directed(_, _)
Adjacency_directed(current, links) ==
    IF links = <<>> THEN <<>>
    ELSE LET l == Head(links)
             key == PairKey(l.source, l.target)
             out == IF l.source = current
                    THEN <<[target |-> l.target, linkKey |-> key]>> ELSE <<>>
         IN  out \o Adjacency_directed(current, Tail(links))

\* adjacency[current]: one entry per link end at `current`, in link order;
\* a self loop contributes two entries
RECURSIVE Adjacency(_, _)
Adjacency(current, links) ==
    IF links = <<>> THEN <<>>
    ELSE LET l == Head(links)
             key == PairKey(l.source, l.target)
             out == IF l.source = current
                    THEN <<[target |-> l.target, linkKey |-> key]>> ELSE <<>>
             inn == IF l.target = current
                    THEN <<[target |-> l.source, linkKey |-> key]>> ELSE <<>>
         IN  out \o inn \o Adjacency(current, Tail(links))

\* the for loop over the neighbours of the dequeued entry: returns the
\* entries pushed and the visited set
RECURSIVE VisitNeighbors(_, _, _, _)
VisitNeighbors(neighbors, entry, visited, pushed) ==
    IF neighbors = <<>> THEN [visited |-> visited, pushed |-> pushed]
    ELSE LET n == Head(neighbors)
         IN  IF n.target \notin visited
             THEN VisitNeighbors(Tail(neighbors), entry,
                      visited \cup {n.target},
                      Append(pushed,
                          [current |-> n.target,
                           pathNodes |-> Append(entry.pathNodes, n.target),
                           pathLinks |-> Append(entry.pathLinks, n.linkKey)]))
             ELSE VisitNeighbors(Tail(neighbors), entry, visited, pushed)

\* a search that takes the entry pushed last (depth first)
RECURSIVE BfsLoop_depthFirst(_, _, _, _)
BfsLoop_depthFirst(queue, visited, endId, links) ==
    IF queue = <<>> THEN NoPath
    ELSE LET entry == Head(queue)
         IN  IF entry.current = endId
             THEN [found |-> TRUE,
                   nodes |-> Range(entry.pathNodes),
                   links |-> Range(entry.pathLinks)]
             ELSE LET r == VisitNeighbors(Adjacency(entry.current, links),
                                          entry, visited, <<>>)
                  IN  BfsLoop_depthFirst(r.pushed \o Tail(queue), r.visited, endId, links)

\* the while loop of findShortestPath
RECURSIVE BfsLoop(_, _, _, _)
BfsLoop(queue, visited, endId, links) ==
    IF queue = <<>> THEN NoPath
    ELSE LET entry == Head(queue)
         IN  IF entry.current = endId
             THEN [found |-> TRUE,
                   nodes |-> Range(entry.pathNodes),
                   links |-> Range(entry.pathLinks)]
             ELSE LET r == VisitNeighbors(Adjacency(entry.current, links),
                                          entry, visited, <<>>)
                  IN  BfsLoop(Tail(queue) \o r.pushed, r.visited, endId, links)

findShortestPath(startId, endId, links) ==
    BfsLoop(<<[current |-> startId, pathNodes |-> <<startId>>, pathLinks |-> <<>>]>>,
            {startId}, endId, links)

\* a path result that needs every segment to succeed
pathResultOf_allSegments(pathSeq, links) ==
    IF Len(pathSeq) < 2 THEN NoPath
    ELSE LET seg(i) == findShortestPath(pathSeq[i], pathSeq[i + 1], links)
             found == {i \in 1..(Len(pathSeq) - 1) : seg(i).found}
             allNodes == UNION {seg(i).nodes : i \in found} \cup Range(pathSeq)
             allLinks == UNION {seg(i).links : i \in found}
         IN  IF Cardinality(found) = Len(pathSeq) - 1
             THEN [found |-> TRUE, nodes |-> allNodes, links |-> allLinks]
             ELSE NoPath

\* the useMemo pathResult: pathSeq is the list of waypoint ids
pathResultOf(pathSeq, links) ==
    IF Len(pathSeq) < 2 THEN NoPath
    ELSE LET seg(i) == findShortestPath(pathSeq[i], pathSeq[i + 1], links)
             found == {i \in 1..(Len(pathSeq) - 1) : seg(i).found}
             allNodes == UNION {seg(i).nodes : i \in found} \cup Range(pathSeq)
             allLinks == UNION {seg(i).links : i \in found}
         IN  IF Cardinality(found) > 0
             THEN [found |-> TRUE, nodes |-> allNodes, links |-> allLinks]
             ELSE NoPath

\* highlightedNodeIds / highlightedLinkIds; isNull stands for null
NullSet == [isNull |-> TRUE, ids |-> {}]
SomeSet(S) == [isNull |-> FALSE, ids |-> S]

\* a highlight that shows the path result only
highlightedNodeIdsOf_resultOnly(pathMode, pathSeq, links) ==
    LET res == pathResultOf(pathSeq, links)
    IN  IF ~pathMode THEN NullSet
        ELSE IF res.found THEN SomeSet(res.nodes)
        ELSE NullSet

\* highlightedNodeIds / highlightedLinkIds of the render
highlightedNodeIdsOf(pathMode, pathSeq, links) ==
    LET res == pathResultOf(pathSeq, links)
    IN  IF ~pathMode THEN NullSet
        ELSE IF res.found THEN SomeSet(res.nodes)
        ELSE IF Len(pathSeq) > 0 THEN SomeSet(Range(pathSeq))
        ELSE NullSet

highlightedLinkIdsOf(pathMode, pathSeq, links) ==
    LET res == pathResultOf(pathSeq, links)
    IN  IF ~pathMode THEN NullSet
        ELSE IF res.found THEN SomeSet(res.links)
        ELSE NullSet

\* ------------------------------------------------------------------------
\* Node and link objects
\* ------------------------------------------------------------------------
\* a numeric property that is missing (undefined / NaN for d3)
Undefined == -1000
\* fx / fy of a node that is not pinned (null or missing)
NoPin == -1001

\* a node object of the Graph Store; sentiment "absent" is a missing property
StoreNode(id, label, group, sentiment, x, y) ==
    [id |-> id, label |-> label, group |-> group, sentiment |-> sentiment,
     x |-> x, y |-> y]

Link(source, target, relation, effect) ==
    [source |-> source, target |-> target, relation |-> relation, effect |-> effect]

NodeIdsOf(nodes) == {nodes[i].id : i \in DOMAIN nodes}

\* ------------------------------------------------------------------------
\* Layout engine: the main effect of ForceGraph (merge protocol)
\* ------------------------------------------------------------------------
\* oldNodesMap.has(id): the map is built from simulation.nodes()
HasOld(old, id) == \E i \in DOMAIN old : old[i].id = id

\* oldNodesMap.get(id): a later entry of the same key replaces an earlier one
OldObject(old, id) == old[MaxOf({i \in DOMAIN old : old[i].id = id})]

\* Object.assign(old, n): every own property of n is written to old
ObjectAssign(old, n) ==
    [old EXCEPT !.label = n.label,
                !.group = n.group,
                !.sentiment = IF n.sentiment # "absent" THEN n.sentiment ELSE @,
                !.x = IF n.x # Undefined THEN n.x ELSE @,
                !.y = IF n.y # Undefined THEN n.y ELSE @]

\* { ...n }: a new object with the properties of n only
CopyNode(n) ==
    [id |-> n.id, label |-> n.label, group |-> n.group, sentiment |-> n.sentiment,
     x |-> n.x, y |-> n.y, vx |-> Undefined, vy |-> Undefined,
     fx |-> NoPin, fy |-> NoPin]

\* the resident object of `id` after the first k incoming nodes were assigned
RECURSIVE AssignedUpTo(_, _, _, _)
AssignedUpTo(old, dataNodes, id, k) ==
    IF k = 0 THEN OldObject(old, id)
    ELSE IF dataNodes[k].id = id
         THEN ObjectAssign(AssignedUpTo(old, dataNodes, id, k - 1), dataNodes[k])
         ELSE AssignedUpTo(old, dataNodes, id, k - 1)

\* oldNodesMap.get(id) as it is once data.nodes.map(...) has run
OldAfterAssign(old, dataNodes, id) == AssignedUpTo(old, dataNodes, id, Len(dataNodes))

\* a merge that keeps the resident nodes the snapshot no longer holds
MutableNodes_keepRemoved(old, dataNodes) ==
    [i \in DOMAIN dataNodes |->
        IF HasOld(old, dataNodes[i].id)
        THEN OldAfterAssign(old, dataNodes, dataNodes[i].id)
        ELSE CopyNode(dataNodes[i])]
    \o SelectSeq(old, LAMBDA o : o.id \notin NodeIdsOf(dataNodes))

\* mutableNodes = data.nodes.map(n => old ? Object.assign(old, n) : { ...n })
MutableNodes(old, dataNodes) ==
    [i \in DOMAIN dataNodes |->
        IF HasOld(old, dataNodes[i].id)
        THEN OldAfterAssign(old, dataNodes, dataNodes[i].id)
        ELSE CopyNode(dataNodes[i])]

\* isUpdate = mutableNodes.some(n => oldNodesMap.has(n.id))
IsUpdate(old, dataNodes) ==
    \E i \in DOMAIN dataNodes : HasOld(old, dataNodes[i].id)

\* a search that returns the last joining link instead of the first
ParentLinkIdx_last(old, dataLinks, id) ==
    LET hits == {k \in DOMAIN dataLinks :
                    \/ dataLinks[k].source = id /\ HasOld(old, dataLinks[k].target)
                    \/ dataLinks[k].target = id /\ HasOld(old, dataLinks[k].source)}
    IN  IF hits = {} THEN 0 ELSE MaxOf(hits)

\* data.links.find(l => (s === n.id && has(t)) || (t === n.id && has(s)));
\* 0 when there is none
ParentLinkIdx(old, dataLinks, id) ==
    LET hits == {k \in DOMAIN dataLinks :
                    \/ dataLinks[k].source = id /\ HasOld(old, dataLinks[k].target)
                    \/ dataLinks[k].target = id /\ HasOld(old, dataLinks[k].source)}
    IN  IF hits = {} THEN 0 ELSE MinOf(hits)

\* new node spawning: a new node of an update starts at its parent's position
SpawnNodes(old, dataNodes, dataLinks) ==
    LET mutable == MutableNodes(old, dataNodes)
    IN  [i \in DOMAIN mutable |->
            LET n == mutable[i]
                k == ParentLinkIdx(old, dataLinks, n.id)
            IN  IF IsUpdate(old, dataNodes) /\ ~HasOld(old, n.id) /\ k # 0
                THEN LET parentId == IF dataLinks[k].source = n.id
                                     THEN dataLinks[k].target ELSE dataLinks[k].source
                         parent == OldAfterAssign(old, dataNodes, parentId)
                     IN  IF parent.x # Undefined /\ parent.y # Undefined
                         THEN [n EXCEPT !.x = parent.x, !.y = parent.y]
                         ELSE n
                ELSE n]

\* d3 initial placement of the node with (0-based) index i:
\* radius 10 * sqrt(0.5 + i), angle i * pi * (3 - sqrt(5)), rounded
Phyllotaxis(i) ==
    CASE i = 0 -> [x |-> 7, y |-> 0]
      [] i = 1 -> [x |-> -9, y |-> 8]
      [] i = 2 -> [x |-> 1, y |-> -16]
      [] i = 3 -> [x |-> 11, y |-> 15]
      [] i = 4 -> [x |-> -21, y |-> -4]
      [] OTHER -> [x |-> 20 + i, y |-> -13 - i]

\* simulation.nodes(mutableNodes): d3 gives a pinned node its pinned
\* position, a node without position its initial placement, and a node
\* without velocity the velocity 0
initializeNodes(nodes) ==
    [i \in DOMAIN nodes |->
        LET n == nodes[i]
            px == IF n.fx # NoPin THEN n.fx ELSE n.x
            py == IF n.fy # NoPin THEN n.fy ELSE n.y
            placed == IF px = Undefined \/ py = Undefined
                      THEN [n EXCEPT !.x = Phyllotaxis(i - 1).x,
                                     !.y = Phyllotaxis(i - 1).y]
                      ELSE [n EXCEPT !.x = px, !.y = py]
        IN  IF placed.vx = Undefined \/ placed.vy = Undefined
            THEN [placed EXCEPT !.vx = 0, !.vy = 0]
            ELSE placed]

\* a key that keeps the direction of the link
CurveKey_directed(s, t) == PairKey(s, t)

\* the key under which linkCounts buckets a link
CurveKey(s, t) == IF StrLess(s, t) THEN PairKey(s, t) ELSE PairKey(t, s)

\* linkCounts[key] once the forEach over data.links has run
LinkCount(dataLinks, key) ==
    Cardinality({k \in DOMAIN dataLinks :
                    CurveKey(dataLinks[k].source, dataLinks[k].target) = key})

\* mutableLinks: a copy of every link with its isCurved flag
MutableLinks(dataLinks) ==
    [k \in DOMAIN dataLinks |->
        [source |-> dataLinks[k].source, target |-> dataLinks[k].target,
         relation |-> dataLinks[k].relation, effect |-> dataLinks[k].effect,
         isCurved |-> LinkCount(dataLinks,
                          CurveKey(dataLinks[k].source, dataLinks[k].target)) > 1]]

\* d3.forceLink(...).id(d => d.id) resolves every endpoint among the
\* simulation's nodes and throws "node not found" for a missing one
LinkForceThrows(nodes, links) ==
    \E k \in DOMAIN links :
        \/ links[k].source \notin NodeIdsOf(nodes)
        \/ links[k].target \notin NodeIdsOf(nodes)

\* ------------------------------------------------------------------------
\* Bounds of the model
\* ------------------------------------------------------------------------
\* requests awaiting their response at one time
MaxInFlight == 1
\* links held by the Graph Store
MaxLinks == 2
\* links of one generator response
MaxRespLinks == 1
\* waypoints of the path sequence
MaxWaypoints == 3
\* links of a graph whose paths are searched
MaxPathLinks == 2
\* links of one generator response whose links are bucketed
MaxCurveLinks == 2
\* connections of one research result
MaxConnections == 2
MaxShake == 1

\* ------------------------------------------------------------------------
\* Generator (Gemini) outputs the model draws from
\* ------------------------------------------------------------------------
\* the label the generator gives the node `id`: its upper-case form
LabelOf(id) ==
    [i \in 1..Len(id) |->
        IF id[i] >= UpperA + CaseOffset /\ id[i] <= UpperZ + CaseOffset
        THEN id[i] - CaseOffset ELSE id[i]]

GroupOf(id) == IF id = id_b THEN "Crypto" ELSE "Stock"

\* a node as a generator response carries it: no sentiment, no position
GenNode(id) == StoreNode(id, LabelOf(id), GroupOf(id), "absent", Undefined, Undefined)

\* node ids of search, note and expand responses
GenIds == {id_a, id_b}

NodeList(ids) == [i \in 1..Len(ids) |-> GenNode(ids[i])]

RECURSIVE SortedList(_)
\* the ids of S as a list in string order
SortedList(S) ==
    IF S = {} THEN <<>>
    ELSE LET m == CHOOSE x \in S : \A y \in S \ {x} : StrLess(x, y)
         IN  <<m>> \o SortedList(S \ {m})

GenNodeLists == {NodeList(SortedList(S)) : S \in SUBSET GenIds}

\* links of a response; id_c is never among the nodes of a response
GenLinks == {Link(id_a, id_b, "drives", "positive"), Link(id_a, id_c, "drives", "positive")}

SeqsUpTo(S, n) == UNION {[1..k -> S] : k \in 0..n}

GenResponses == {[nodes |-> ns, links |-> ls] : ns \in GenNodeLists, ls \in SeqsUpTo(GenLinks, MaxRespLinks)}

\* impact simulation responses
ImpactResponses == {<<>>, <<[id |-> id_b, health |-> "bullish"]>>}

\* research results: the label of the new node and the connections
label_C == <<UpperA + 2>>
ResearchLabels == {label_C}
ConnectionLabels == {LabelOf(id_a), LabelOf(id_b)}
NoResearch == [label |-> <<>>, group |-> "", connections |-> <<>>]
ResearchResults ==
    {[label |-> l, group |-> "Stock", connections |-> c] :
        l \in ResearchLabels,
        c \in SeqsUpTo({[targetNodeLabel |-> t, relation |-> "hedges", effect |-> "negative"] :
                            t \in ConnectionLabels}, MaxConnections)}

\* every id a node of the store can have
AllIds == GenIds \cup {id_c}

\* the layouts a tick of the simulation may produce: position and velocity
\* of the node with index k
TickPhases == {0}
TickState(phase, k) ==
    [x |-> 30 + 10 * k + 100 * phase, y |-> 40 - 10 * k, vx |-> 2 + phase, vy |-> -k]
\* pointer positions of a drag gesture
PointerPoints == {[x |-> 50, y |-> 60]}

\* ------------------------------------------------------------------------
\* State
\* ------------------------------------------------------------------------
VARIABLES
    graphData,        \* App: the Graph Store {nodes, links}
    graphStatus,      \* App: 'idle' | 'loading' | 'success' | 'error'
    selectedNode,     \* App: id of the selected node, NoNode for null
    isPathMode,       \* App
    pathSequence,     \* App: the waypoints (their ids)
    isSimMode,        \* App
    simulationResult, \* App: "null" or "result"
    researchResult,   \* App: NoResearch for null
    inflight,         \* requests whose await has not resumed, in issue order
    filterState,      \* App: the legend filter, NoFilter for null
    shakeTrigger,     \* App: the jolt counter
    simExists,        \* ForceGraph: simulationRef.current of a mounted ForceGraph
    simNodes,         \* ForceGraph: simulation.nodes()
    simLinks,         \* ForceGraph: the links of the link force
    drag,             \* the d3 drag gesture: subject id, and whether the subject is a simulation node
    crashed,          \* an effect threw: React has unmounted the application
    simAlpha,         \* ForceGraph: alpha, alphaTarget and the timer of the simulation
    opacity,          \* ForceGraph: the opacity of the rendered node and link elements
    nodeStyle,        \* ForceGraph: stroke, stroke-width and stroke-dasharray of the node circles
    hoverClosure,     \* ForceGraph: highlightedNodeIds and filterState as the hover handlers captured them
    preMerge          \* history: simulation.nodes() as the last step's merge found them

appVars == <<graphData, graphStatus, selectedNode, isPathMode, pathSequence,
             isSimMode, simulationResult, researchResult, inflight,
             filterState, shakeTrigger>>
engineVars == <<simExists, simNodes, simLinks, drag, crashed>>
viewVars == <<simAlpha, opacity, hoverClosure, nodeStyle>>
vars == <<graphData, graphStatus, selectedNode, isPathMode, pathSequence,
          isSimMode, simulationResult, researchResult, inflight,
          filterState, shakeTrigger,
          simExists, simNodes, simLinks, drag, crashed, simAlpha, opacity, hoverClosure,
          nodeStyle, preMerge>>

NoDrag == [id |-> NoNode, attached |-> FALSE]
NoMerge == [valid |-> FALSE, nodes |-> <<>>, dragging |-> FALSE]

Request(kind, node) == [kind |-> kind, node |-> node, superseded |-> FALSE]

\* bookkeeping of the issue order, no field of the program, kept where
\* requests race: the pending graph requests once a newer one is issued
Superseded(requests) ==
    [k \in DOMAIN requests |->
        IF requests[k].kind \in {"search", "note"}
        THEN [requests[k] EXCEPT !.superseded = TRUE]
        ELSE requests[k]]

\* remove the i-th request (its await resumes)
Resume(i) == [k \in 1..(Len(inflight) - 1) |-> IF k < i THEN inflight[k] ELSE inflight[k + 1]]

\* App render: ForceGraph is rendered unless the store is empty and loading / failed
ForceGraphMounted(status, data) ==
    ~((status = "loading" \/ status = "error") /\ Len(data.nodes) = 0)

\* calculateNodeRanks keeps every node, its order and its other properties;
\* the rank property itself is not part of this state
WithRanks(nodes, links) == nodes

\* ------------------------------------------------------------------------
\* The effects of ForceGraph that follow a render
\* ------------------------------------------------------------------------
\* depsChanged: one of [data, dimensions, onNodeClick, sequenceNodeIds] is a new object
RunMainEffect(depsChanged) ==
    IF ~ForceGraphMounted(graphStatus', graphData')
    THEN /\ simExists' = FALSE
         /\ simNodes' = <<>>
         /\ simLinks' = <<>>
         /\ drag' = [drag EXCEPT !.attached = FALSE]
         /\ crashed' = crashed
         /\ preMerge' = NoMerge
    ELSE IF simExists /\ ~depsChanged
    THEN /\ UNCHANGED engineVars
         /\ preMerge' = NoMerge
    ELSE \* each step of the effect is computed once, in the order of the code
         \E data \in {graphData'} :
         \E old \in {IF simExists THEN simNodes ELSE <<>>} :
         \E spawned \in {SpawnNodes(old, data.nodes, data.links)} :
         \E links \in {MutableLinks(data.links)} :
         \E merged \in {initializeNodes(spawned)} :
         \E throws \in {LinkForceThrows(merged, links)} :
            /\ simExists' = TRUE
            /\ simNodes' = merged
            /\ simLinks' = IF throws THEN simLinks ELSE links
            /\ drag' = IF drag.id \in NodeIdsOf(merged) THEN drag
                       ELSE [drag EXCEPT !.attached = FALSE]
            /\ crashed' = throws
            /\ preMerge' = [valid |-> TRUE, nodes |-> old, dragging |-> drag.id # NoNode]

\* ------------------------------------------------------------------------
\* ForceGraph: the energy of the simulation and the opacity of the elements
\* ------------------------------------------------------------------------
\* alpha in thousandths: simulation.alpha(1), alpha(0.8), alphaTarget(0.3)
AlphaFull == 1000
AlphaJolt == 800
AlphaDrag == 300

\* no simulation, or a simulation that has cooled to a stop
AlphaRest == [alpha |-> 0, alphaTarget |-> 0, running |-> FALSE]

\* the levels that a cooling alpha passes in the model; 0 stands for every
\* alpha below alphaMin
AlphaLevels == {0, AlphaDrag, AlphaFull}

\* alpha += (alphaTarget - alpha) * alphaDecay, as many ticks as it takes to
\* reach the next level towards alphaTarget
AlphaStep(a, target) ==
    IF a > target THEN MaxOf({l \in AlphaLevels \cup {target} : l < a /\ l >= target})
    ELSE target

\* the step of the timer: one tick, and the timer stops below alphaMin
StepAlpha(e) ==
    [alpha |-> AlphaStep(e.alpha, e.alphaTarget),
     alphaTarget |-> e.alphaTarget,
     running |-> AlphaStep(e.alpha, e.alphaTarget) > 0]

\* setShakeTrigger(prev => prev + 1); MaxShake stands for every larger count
NextShake(n) == IF n < MaxShake THEN n + 1 ELSE n

\* a shake effect that acts only while the timer still runs
ShakeEffect_whenRunning(e, shakeChanged) ==
    IF shakeChanged /\ shakeTrigger' > 0 /\ simExists /\ e.running
    THEN [e EXCEPT !.alpha = AlphaJolt, !.running = TRUE]
    ELSE e

\* the shake effect: simulationRef.current.alpha(0.8).restart()
ShakeEffect(e, shakeChanged) ==
    IF shakeChanged /\ shakeTrigger' > 0 /\ simExists
    THEN [e EXCEPT !.alpha = AlphaJolt, !.running = TRUE]
    ELSE e

\* opacities in hundredths
NODE_OPACITY_ACTIVE == 100
NODE_OPACITY_DIMMED == 15
LINK_BASE_OPACITY_NORMAL == 15
LINK_BASE_OPACITY_ACTIVE == 40
LINK_BASE_OPACITY_DIMMED == 2

NoFilter == [type |-> "null", value |-> "null"]
EmptyDom == [nodes |-> [id \in {} |-> 0], links |-> [key \in {} |-> 0]]

\* the hover handlers of a ForceGraph whose props hold no highlight and no filter
NoClosure == [hasHighlight |-> FALSE, filter |-> NoFilter]

\* the key of the link join: `${s}-${t}-${d.relation}`, kept as the triple
LinkKeyOf(l) == <<l.source, l.target, l.relation>>
LinkKeysOf(links) == {LinkKeyOf(links[k]) : k \in DOMAIN links}

\* the datum bound to the node element / link element of a key
NodeDatum(nodes, id) == nodes[MinOf({k \in DOMAIN nodes : nodes[k].id = id})]
LinkDatum(links, key) == links[MinOf({k \in DOMAIN links : LinkKeyOf(links[k]) = key})]

\* highlightedNodeIds && highlightedNodeIds.size > 0
HasPathHighlight(hl) == ~hl.isNull /\ hl.ids # {}

\* (data.nodes).find(n => n.id === id)?.group
GroupInData(nodes, id) ==
    IF id \in NodeIdsOf(nodes) THEN NodeDatum(nodes, id).group ELSE "undefined"

isNodeVisible(d, hlNodes, filter) ==
    IF HasPathHighlight(hlNodes) THEN d.id \in hlNodes.ids
    ELSE IF filter # NoFilter /\ filter.type = "group" THEN d.group = filter.value
    ELSE TRUE

\* an isLinkVisible whose group filter is content with one matching endpoint
isLinkVisible_eitherEndpoint(d, hlNodes, hlLinks, filter, dataNodes) ==
    IF HasPathHighlight(hlNodes)
    THEN ~hlLinks.isNull /\ PairKey(d.source, d.target) \in hlLinks.ids
    ELSE IF filter # NoFilter /\ filter.type = "group"
    THEN \/ GroupInData(dataNodes, d.source) = filter.value
         \/ GroupInData(dataNodes, d.target) = filter.value
    ELSE IF filter # NoFilter /\ filter.type = "effect" THEN d.effect = filter.value
    ELSE TRUE

isLinkVisible(d, hlNodes, hlLinks, filter, dataNodes) ==
    IF HasPathHighlight(hlNodes)
    THEN ~hlLinks.isNull /\ PairKey(d.source, d.target) \in hlLinks.ids
    ELSE IF filter # NoFilter /\ filter.type = "group"
    THEN /\ GroupInData(dataNodes, d.source) = filter.value
         /\ GroupInData(dataNodes, d.target) = filter.value
    ELSE IF filter # NoFilter /\ filter.type = "effect" THEN d.effect = filter.value
    ELSE TRUE

NodeOpacityOf(d, hlNodes, filter) ==
    IF isNodeVisible(d, hlNodes, filter) THEN NODE_OPACITY_ACTIVE ELSE NODE_OPACITY_DIMMED

LinkOpacityOf(d, hlNodes, hlLinks, filter, dataNodes) ==
    IF isLinkVisible(d, hlNodes, hlLinks, filter, dataNodes)
    THEN IF HasPathHighlight(hlNodes) THEN LINK_BASE_OPACITY_ACTIVE
         ELSE LINK_BASE_OPACITY_NORMAL
    ELSE LINK_BASE_OPACITY_DIMMED

\* the opacity effect on the elements at hand, with the props of the render
OpacityEffect(dom, nodes, links, hlNodes, hlLinks, filter, dataNodes) ==
    [nodes |-> [id \in DOMAIN dom.nodes |->
                    NodeOpacityOf(NodeDatum(nodes, id), hlNodes, filter)],
     links |-> [key \in DOMAIN dom.links |->
                    LinkOpacityOf(LinkDatum(links, key), hlNodes, hlLinks, filter,
                                  dataNodes)]]

\* the joins of the main effect: an element that stays keeps its opacity, a
\* node that enters has no opacity of its own (1), a link that enters goes to 0.15
JoinElements(dom, nodes, links) ==
    [nodes |-> [id \in NodeIdsOf(nodes) |->
                    IF id \in DOMAIN dom.nodes THEN dom.nodes[id]
                    ELSE NODE_OPACITY_ACTIVE],
     links |-> [key \in LinkKeysOf(links) |->
                    IF key \in DOMAIN dom.links THEN dom.links[key]
                    ELSE LINK_BASE_OPACITY_NORMAL]]

\* the dependencies of the opacity effect: [highlightedNodeIds,
\* highlightedLinkIds, showLabels, filterState, data.nodes]
OpacityDepsChanged(nodesChanged) ==
    \/ nodesChanged
    \/ filterState' # filterState
    \/ /\ isPathMode' # isPathMode \/ pathSequence' # pathSequence
       /\ ~(/\ highlightedNodeIdsOf(isPathMode, pathSequence, graphData.links).isNull
            /\ highlightedNodeIdsOf(isPathMode', pathSequence', graphData'.links).isNull)

\* ------------------------------------------------------------------------
\* ForceGraph: the border of the node circles (getNodeStyle); widths in
\* tenths. The radius, which alone uses the rank and the degrees, is left out.
\* ------------------------------------------------------------------------
StyleOf(stroke, width, dash) == [stroke |-> stroke, width |-> width, dash |-> dash]

\* sequenceNodeIds.indexOf(id), counted from 1; 0 when the id is not included
IndexOf(seq, id) ==
    LET hits == {k \in DOMAIN seq : seq[k] = id}
    IN  IF hits = {} THEN 0 ELSE MinOf(hits)

\* a getNodeStyle that tests the waypoint sequence before the status
getNodeStyle_sequenceFirst(d, sequenceNodeIds) ==
    IF IndexOf(sequenceNodeIds, d.id) # 0
    THEN IF IndexOf(sequenceNodeIds, d.id) = 1 THEN StyleOf("#3b82f6", 40, "none")
         ELSE IF IndexOf(sequenceNodeIds, d.id) = Len(sequenceNodeIds)
         THEN StyleOf("#f97316", 40, "none")
         ELSE StyleOf("#eab308", 40, "none")
    ELSE IF d.sentiment = "bearish" THEN StyleOf("#ef4444", 40, "none")
    ELSE IF d.sentiment = "bullish" THEN StyleOf("#10b981", 40, "none")
    ELSE IF d.sentiment = "volatile" THEN StyleOf("#f59e0b", 40, "2,2")
    ELSE StyleOf("#ffffff", 25, "none")

getNodeStyle(d, sequenceNodeIds) ==
    IF d.sentiment = "bearish" THEN StyleOf("#ef4444", 40, "none")
    ELSE IF d.sentiment = "bullish" THEN StyleOf("#10b981", 40, "none")
    ELSE IF d.sentiment = "volatile" THEN StyleOf("#f59e0b", 40, "2,2")
    ELSE IF IndexOf(sequenceNodeIds, d.id) # 0
    THEN IF IndexOf(sequenceNodeIds, d.id) = 1 THEN StyleOf("#3b82f6", 40, "none")
         ELSE IF IndexOf(sequenceNodeIds, d.id) = Len(sequenceNodeIds)
         THEN StyleOf("#f97316", 40, "none")
         ELSE StyleOf("#eab308", 40, "none")
    ELSE StyleOf("#ffffff", 25, "none")

NoStyles == [id \in {} |-> 0]

\* the node join of the main effect: enter and update both set the circle's
\* border from getNodeStyle of the element's datum
JoinStyles(nodes, sequenceNodeIds) ==
    [id \in NodeIdsOf(nodes) |-> getNodeStyle(NodeDatum(nodes, id), sequenceNodeIds)]

\* the effects of ForceGraph other than the merge, for the render that follows
\* a handler: the opacity effect and the shake effect run before the main
\* effect; `nodesChanged` and `shakeChanged` tell whether the handler has set
\* the store and the jolt counter. Evaluated after RunMainEffect.
RunViewEffects(nodesChanged, shakeChanged) ==
    IF ~ForceGraphMounted(graphStatus', graphData')
    THEN /\ simAlpha' = AlphaRest
         /\ opacity' = EmptyDom
         /\ hoverClosure' = NoClosure
         /\ nodeStyle' = NoStyles
    ELSE \E shaken \in {ShakeEffect(simAlpha, shakeChanged)} :
         \E hlNodes \in {highlightedNodeIdsOf(isPathMode', pathSequence', graphData'.links)} :
         \E hlLinks \in {highlightedLinkIdsOf(isPathMode', pathSequence', graphData'.links)} :
         \E dimmed \in {IF simExists /\ OpacityDepsChanged(nodesChanged)
                        THEN OpacityEffect(opacity, simNodes, simLinks, hlNodes, hlLinks,
                                           filterState', graphData'.nodes)
                        ELSE opacity} :
            /\ simAlpha' =
                  IF ~preMerge'.valid THEN shaken
                  ELSE IF crashed' THEN (IF simExists THEN shaken
                                         ELSE [alpha |-> AlphaFull, alphaTarget |-> 0,
                                               running |-> TRUE])
                  ELSE [alpha |-> AlphaFull,
                        alphaTarget |-> IF simExists THEN shaken.alphaTarget ELSE 0,
                        running |-> TRUE]
            /\ opacity' =
                  IF preMerge'.valid /\ ~crashed'
                  THEN JoinElements(dimmed, simNodes', simLinks')
                  ELSE dimmed
            /\ hoverClosure' =
                  IF preMerge'.valid /\ ~crashed'
                  THEN [hasHighlight |-> HasPathHighlight(hlNodes), filter |-> filterState']
                  ELSE hoverClosure
            /\ nodeStyle' =
                  IF preMerge'.valid /\ ~crashed'
                  THEN JoinStyles(simNodes', pathSequence')
                  ELSE nodeStyle

\* ------------------------------------------------------------------------
\* Generator services (geminiService)
\* ------------------------------------------------------------------------
\* fetchInitialGraph / generateGraphFromText: links.filter(l =>
\* nodeIds.has(l.source) && nodeIds.has(l.target))
ValidLinks(resp) ==
    FilterSeq(resp.links,
        [k \in DOMAIN resp.links |->
            /\ resp.links[k].source \in NodeIdsOf(resp.nodes)
            /\ resp.links[k].target \in NodeIdsOf(resp.nodes)])

\* expandNode: the parsed nodes and links are returned as they are
ExpandResult(resp) == [nodes |-> resp.nodes, links |-> resp.links]

\* ------------------------------------------------------------------------
\* App: search, note submission, focus
\* ------------------------------------------------------------------------
\* the part of handleSearch / handleNoteSubmit before the await
IssueGraphRequest(kind, limit, pending) ==
    /\ ~crashed
    /\ Len(inflight) < limit
    /\ graphStatus' = "loading"
    /\ selectedNode' = NoNode
    /\ isPathMode' = FALSE
    /\ pathSequence' = <<>>
    /\ isSimMode' = FALSE
    /\ simulationResult' = "null"
    /\ inflight' = Append(pending, Request(kind, NoNode))
    /\ UNCHANGED <<graphData, researchResult>>
    /\ filterState' = NoFilter
    /\ UNCHANGED shakeTrigger
    /\ RunMainEffect(TRUE)
    /\ RunViewEffects(FALSE, FALSE)

StartGraphRequest(kind) == IssueGraphRequest(kind, MaxInFlight, inflight)

handleSearch == StartGraphRequest("search")

handleNoteSubmit == StartGraphRequest("note")

\* InfoPanel is rendered only outside path and simulation mode
handleFocusNode ==
    /\ selectedNode # NoNode
    /\ ~isPathMode /\ ~isSimMode
    /\ StartGraphRequest("search")

\* the try block of handleSearch after the await
SearchResponse(i, resp) ==
    /\ ~crashed
    /\ inflight[i].kind = "search"
    /\ graphData' = [nodes |-> WithRanks(resp.nodes, ValidLinks(resp)),
                     links |-> ValidLinks(resp)]
    /\ graphStatus' = "success"
    /\ inflight' = Resume(i)
    /\ UNCHANGED <<selectedNode, isPathMode, pathSequence, isSimMode,
                   simulationResult, researchResult>>
    /\ UNCHANGED <<filterState, shakeTrigger>>
    /\ RunMainEffect(TRUE)
    /\ RunViewEffects(TRUE, FALSE)

\* a note submission that stores an empty graph instead of throwing
NoteResponse_noThrow(i, resp) ==
    /\ ~crashed
    /\ inflight[i].kind = "note"
    /\ graphData' = [nodes |-> WithRanks(resp.nodes, ValidLinks(resp)),
                     links |-> ValidLinks(resp)]
    /\ graphStatus' = "success"
    /\ inflight' = Resume(i)
    /\ UNCHANGED <<selectedNode, isPathMode, pathSequence, isSimMode,
                   simulationResult, researchResult>>
    /\ UNCHANGED <<filterState, shakeTrigger>>
    /\ RunMainEffect(TRUE)
    /\ RunViewEffects(TRUE, FALSE)

\* the try block of handleNoteSubmit after the await; an empty node list throws
NoteResponse(i, resp) ==
    /\ ~crashed
    /\ inflight[i].kind = "note"
    /\ IF Len(resp.nodes) = 0
       THEN /\ graphStatus' = "error"
            /\ UNCHANGED graphData
       ELSE /\ graphData' = [nodes |-> WithRanks(resp.nodes, ValidLinks(resp)),
                             links |-> ValidLinks(resp)]
            /\ graphStatus' = "success"
    /\ inflight' = Resume(i)
    /\ UNCHANGED <<selectedNode, isPathMode, pathSequence, isSimMode,
                   simulationResult, researchResult>>
    /\ UNCHANGED <<filterState, shakeTrigger>>
    /\ RunMainEffect(Len(resp.nodes) # 0)
    /\ RunViewEffects(Len(resp.nodes) # 0, FALSE)

\* the catch block of handleSearch / handleNoteSubmit: the service threw
GraphRequestFailure(i) ==
    /\ ~crashed
    /\ inflight[i].kind \in {"search", "note"}
    /\ graphStatus' = "error"
    /\ inflight' = Resume(i)
    /\ UNCHANGED <<graphData, selectedNode, isPathMode, pathSequence, isSimMode,
                   simulationResult, researchResult>>
    /\ UNCHANGED <<filterState, shakeTrigger>>
    /\ RunMainEffect(FALSE)
    /\ RunViewEffects(FALSE, FALSE)

\* ------------------------------------------------------------------------
\* App: expand
\* ------------------------------------------------------------------------
\* handleExpandNode before the await
handleExpandNode ==
    /\ ~crashed
    /\ selectedNode # NoNode
    /\ ~isPathMode /\ ~isSimMode
    /\ Len(inflight) < MaxInFlight
    /\ inflight' = Append(inflight, Request("expand", NoNode))
    /\ UNCHANGED <<graphData, graphStatus, selectedNode, isPathMode, pathSequence,
                   isSimMode, simulationResult, researchResult>>
    /\ UNCHANGED <<filterState, shakeTrigger>>
    /\ RunMainEffect(FALSE)
    /\ RunViewEffects(FALSE, FALSE)

\* newUniqueNodes: the response nodes whose id the store does not hold
NewUniqueNodes(prev, newData) ==
    FilterSeq(newData.nodes,
        [k \in DOMAIN newData.nodes |-> newData.nodes[k].id \notin NodeIdsOf(prev.nodes)])

\* newUniqueLinks: the response links whose `${source}-${target}` is no key of the store
NewUniqueLinks(prev, newData) ==
    LET existingLinkKeys == {PairKey(prev.links[k].source, prev.links[k].target) :
                                k \in DOMAIN prev.links}
    IN  FilterSeq(newData.links,
            [k \in DOMAIN newData.links |->
                PairKey(newData.links[k].source, newData.links[k].target)
                    \notin existingLinkKeys])

\* the setGraphData updater of handleExpandNode
ExpandMerge(prev, newData) ==
    LET combinedNodes == prev.nodes \o NewUniqueNodes(prev, newData)
        combinedLinks == prev.links \o NewUniqueLinks(prev, newData)
    IN  [nodes |-> WithRanks(combinedNodes, combinedLinks), links |-> combinedLinks]

ExpandResponse(i, resp) ==
    /\ ~crashed
    /\ inflight[i].kind = "expand"
    /\ Len(ExpandMerge(graphData, ExpandResult(resp)).links) <= MaxLinks
    /\ graphData' = ExpandMerge(graphData, ExpandResult(resp))
    /\ inflight' = Resume(i)
    /\ UNCHANGED <<graphStatus, selectedNode, isPathMode, pathSequence, isSimMode,
                   simulationResult, researchResult>>
    /\ UNCHANGED <<filterState, shakeTrigger>>
    /\ RunMainEffect(TRUE)
    /\ RunViewEffects(TRUE, FALSE)

\* the catch block of handleExpandNode, handleSimulateImpact, handleResearch
RequestFailure(i) ==
    /\ ~crashed
    /\ inflight[i].kind \in {"expand", "simulate", "research"}
    /\ inflight' = Resume(i)
    /\ UNCHANGED <<graphData, graphStatus, selectedNode, isPathMode, pathSequence,
                   isSimMode, simulationResult, researchResult>>
    /\ UNCHANGED <<filterState, shakeTrigger>>
    /\ RunMainEffect(FALSE)
    /\ RunViewEffects(FALSE, FALSE)

\* ------------------------------------------------------------------------
\* App: research
\* ------------------------------------------------------------------------
handleResearch ==
    /\ ~crashed
    /\ Len(inflight) < MaxInFlight
    /\ \A k \in DOMAIN inflight : inflight[k].kind # "research"
    /\ researchResult' = NoResearch
    /\ inflight' = Append(inflight, Request("research", NoNode))
    /\ UNCHANGED <<graphData, graphStatus, selectedNode, isPathMode, pathSequence,
                   isSimMode, simulationResult>>
    /\ UNCHANGED <<filterState, shakeTrigger>>
    /\ RunMainEffect(FALSE)
    /\ RunViewEffects(FALSE, FALSE)

ResearchResponse(i, result) ==
    /\ ~crashed
    /\ inflight[i].kind = "research"
    /\ researchResult' = result
    /\ inflight' = Resume(i)
    /\ UNCHANGED <<graphData, graphStatus, selectedNode, isPathMode, pathSequence,
                   isSimMode, simulationResult>>
    /\ UNCHANGED <<filterState, shakeTrigger>>
    /\ RunMainEffect(FALSE)
    /\ RunViewEffects(FALSE, FALSE)

\* label.toLowerCase().replace(/\s+/g, '-')
ResearchNodeId(label) == ReplaceSpaces(ToLowerCase(label), FALSE)

\* the node object handleAddResearchToGraph creates: it carries x: 0, y: 0
ResearchNode(result) ==
    StoreNode(ResearchNodeId(result.label), result.label, result.group, "absent", 0, 0)

\* prev.nodes.find(n => n.label.toLowerCase() === label.toLowerCase()); 0 for none
FindByLabel(nodes, label) ==
    LET hits == {k \in DOMAIN nodes : ToLowerCase(nodes[k].label) = ToLowerCase(label)}
    IN  IF hits = {} THEN 0 ELSE MinOf(hits)

\* newLinks: one link per connection whose target label is found
ResearchLinks(prev, result) ==
    LET conns == FilterSeq(result.connections,
                     [k \in DOMAIN result.connections |->
                         FindByLabel(prev.nodes, result.connections[k].targetNodeLabel) # 0])
    IN  [k \in DOMAIN conns |->
            Link(ResearchNodeId(result.label),
                 prev.nodes[FindByLabel(prev.nodes, conns[k].targetNodeLabel)].id,
                 conns[k].relation, conns[k].effect)]

\* the setGraphData updater of handleAddResearchToGraph
AddResearchMerge(prev, result) ==
    LET newNode == ResearchNode(result)
        nodeExists == newNode.id \in NodeIdsOf(prev.nodes)
        nextNodes == IF nodeExists THEN prev.nodes ELSE Append(prev.nodes, newNode)
        nextLinks == prev.links \o ResearchLinks(prev, result)
    IN  [nodes |-> WithRanks(nextNodes, nextLinks), links |-> nextLinks]

handleAddResearchToGraph ==
    /\ ~crashed
    /\ researchResult # NoResearch
    /\ Len(AddResearchMerge(graphData, researchResult).links) <= MaxLinks
    /\ graphData' = AddResearchMerge(graphData, researchResult)
    /\ UNCHANGED <<graphStatus, selectedNode, isPathMode, pathSequence, isSimMode,
                   simulationResult, researchResult, inflight>>
    /\ shakeTrigger' = NextShake(shakeTrigger)
    /\ UNCHANGED filterState
    /\ RunMainEffect(TRUE)
    /\ RunViewEffects(TRUE, TRUE)

\* ------------------------------------------------------------------------
\* App: impact simulation, modes, waypoints
\* ------------------------------------------------------------------------
\* resetHealth: every node gets the property sentiment: undefined
ResetHealth(data) ==
    [nodes |-> [k \in DOMAIN data.nodes |-> [data.nodes[k] EXCEPT !.sentiment = "undefined"]],
     links |-> data.links]

\* result.impactedNodes.find(i => i.id === id); 0 for none
FindImpact(impacted, id) ==
    LET hits == {k \in DOMAIN impacted : impacted[k].id = id}
    IN  IF hits = {} THEN 0 ELSE MinOf(hits)

\* the setGraphData updater of handleSimulateImpact
ApplyImpact(prev, shockId, impacted) ==
    [nodes |-> [k \in DOMAIN prev.nodes |->
                  LET n == prev.nodes[k]
                  IN  IF n.id = shockId THEN [n EXCEPT !.sentiment = "bearish"]
                      ELSE IF FindImpact(impacted, n.id) # 0
                      THEN [n EXCEPT !.sentiment = impacted[FindImpact(impacted, n.id)].health]
                      ELSE [n EXCEPT !.sentiment = "undefined"]],
     links |-> prev.links]

\* a click on a rendered node: onNodeClick receives the simulation's node
onNodeClick(id) ==
    /\ ~crashed
    /\ simExists
    /\ id \in NodeIdsOf(simNodes)
    /\ IF isSimMode
       THEN \* handleSimulateImpact before the await
            /\ Len(inflight) < MaxInFlight
            /\ simulationResult' = "null"
            /\ selectedNode' = NoNode
            /\ inflight' = Append(inflight, Request("simulate", id))
            /\ UNCHANGED <<graphData, graphStatus, isPathMode, pathSequence,
                           isSimMode, researchResult>>
            /\ UNCHANGED <<filterState, shakeTrigger>>
            /\ RunMainEffect(FALSE)
            /\ RunViewEffects(FALSE, FALSE)
       ELSE IF isPathMode
       THEN /\ Len(pathSequence) < MaxWaypoints
            /\ pathSequence' = Append(pathSequence, id)
            /\ UNCHANGED <<graphData, graphStatus, selectedNode, isPathMode,
                           isSimMode, simulationResult, researchResult, inflight>>
            /\ UNCHANGED <<filterState, shakeTrigger>>
            /\ RunMainEffect(TRUE)
            /\ RunViewEffects(FALSE, FALSE)
       ELSE /\ selectedNode' = id
            /\ UNCHANGED <<graphData, graphStatus, isPathMode, pathSequence,
                           isSimMode, simulationResult, researchResult, inflight>>
            /\ UNCHANGED <<filterState, shakeTrigger>>
            /\ RunMainEffect(FALSE)
            /\ RunViewEffects(FALSE, FALSE)

\* handleSimulateImpact after the await
SimulateResponse(i, impacted) ==
    /\ ~crashed
    /\ inflight[i].kind = "simulate"
    /\ simulationResult' = "result"
    /\ graphData' = ApplyImpact(graphData, inflight[i].node, impacted)
    /\ inflight' = Resume(i)
    /\ UNCHANGED <<graphStatus, selectedNode, isPathMode, pathSequence, isSimMode,
                   researchResult>>
    /\ UNCHANGED <<filterState, shakeTrigger>>
    /\ RunMainEffect(TRUE)
    /\ RunViewEffects(TRUE, FALSE)

\* a path toggle that leaves the simulation mode as it is
togglePathMode_keepSim ==
    /\ ~crashed
    /\ isPathMode' = ~isPathMode
    /\ pathSequence' = <<>>
    /\ UNCHANGED isSimMode
    /\ simulationResult' = "null"
    /\ selectedNode' = NoNode
    /\ graphData' = ResetHealth(graphData)
    /\ UNCHANGED <<graphStatus, researchResult, inflight>>
    /\ filterState' = NoFilter
    /\ UNCHANGED shakeTrigger
    /\ RunMainEffect(TRUE)
    /\ RunViewEffects(TRUE, FALSE)

togglePathMode ==
    /\ ~crashed
    /\ isPathMode' = ~isPathMode
    /\ pathSequence' = <<>>
    /\ isSimMode' = FALSE
    /\ simulationResult' = "null"
    /\ selectedNode' = NoNode
    /\ graphData' = ResetHealth(graphData)
    /\ UNCHANGED <<graphStatus, researchResult, inflight>>
    /\ filterState' = NoFilter
    /\ UNCHANGED shakeTrigger
    /\ RunMainEffect(TRUE)
    /\ RunViewEffects(TRUE, FALSE)

toggleSimMode ==
    /\ ~crashed
    /\ isSimMode' = ~isSimMode
    /\ simulationResult' = "null"
    /\ isPathMode' = FALSE
    /\ pathSequence' = <<>>
    /\ selectedNode' = NoNode
    /\ graphData' = ResetHealth(graphData)
    /\ UNCHANGED <<graphStatus, researchResult, inflight>>
    /\ UNCHANGED <<filterState, shakeTrigger>>
    /\ RunMainEffect(TRUE)
    /\ RunViewEffects(TRUE, FALSE)

\* the Reset button of the simulation banner
resetHealth ==
    /\ ~crashed
    /\ isSimMode /\ simulationResult # "null"
    /\ graphData' = ResetHealth(graphData)
    /\ UNCHANGED <<graphStatus, selectedNode, isPathMode, pathSequence, isSimMode,
                   simulationResult, researchResult, inflight>>
    /\ UNCHANGED <<filterState, shakeTrigger>>
    /\ RunMainEffect(TRUE)
    /\ RunViewEffects(TRUE, FALSE)

\* the Undo button of the path banner: prev.slice(0, -1)
undoLastPathStep ==
    /\ ~crashed
    /\ isPathMode /\ Len(pathSequence) > 0
    /\ pathSequence' = SubSeq(pathSequence, 1, Len(pathSequence) - 1)
    /\ UNCHANGED <<graphData, graphStatus, selectedNode, isPathMode, isSimMode,
                   simulationResult, researchResult, inflight>>
    /\ UNCHANGED <<filterState, shakeTrigger>>
    /\ RunMainEffect(TRUE)
    /\ RunViewEffects(FALSE, FALSE)

\* the Clear all button of the path banner: setPathSequence([])
clearPathSequence ==
    /\ ~crashed
    /\ isPathMode /\ Len(pathSequence) > 0
    /\ pathSequence' = <<>>
    /\ UNCHANGED <<graphData, graphStatus, selectedNode, isPathMode, isSimMode,
                   simulationResult, researchResult, inflight>>
    /\ UNCHANGED <<filterState, shakeTrigger>>
    /\ RunMainEffect(TRUE)
    /\ RunViewEffects(FALSE, FALSE)

\* the Jolt button: setShakeTrigger(prev => prev + 1)
handleJolt ==
    /\ ~crashed
    /\ shakeTrigger' = NextShake(shakeTrigger)
    /\ UNCHANGED <<graphData, graphStatus, selectedNode, isPathMode, pathSequence,
                   isSimMode, simulationResult, researchResult, inflight, filterState>>
    /\ RunMainEffect(FALSE)
    /\ RunViewEffects(FALSE, TRUE)

\* Legend: a click on a group toggles the group filter
handleGroupClick(group) ==
    /\ ~crashed
    /\ filterState' = IF filterState = [type |-> "group", value |-> group] THEN NoFilter
                      ELSE [type |-> "group", value |-> group]
    /\ UNCHANGED <<graphData, graphStatus, selectedNode, isPathMode, pathSequence,
                   isSimMode, simulationResult, researchResult, inflight, shakeTrigger>>
    /\ RunMainEffect(FALSE)
    /\ RunViewEffects(FALSE, FALSE)

\* Legend: a click on an effect toggles the effect filter
handleEffectClick(effect) ==
    /\ ~crashed
    /\ filterState' = IF filterState = [type |-> "effect", value |-> effect] THEN NoFilter
                      ELSE [type |-> "effect", value |-> effect]
    /\ UNCHANGED <<graphData, graphStatus, selectedNode, isPathMode, pathSequence,
                   isSimMode, simulationResult, researchResult, inflight, shakeTrigger>>
    /\ RunMainEffect(FALSE)
    /\ RunViewEffects(FALSE, FALSE)

\* ------------------------------------------------------------------------
\* ForceGraph: the hover handlers of the node elements
\* ------------------------------------------------------------------------
\* stroke-opacity of the base links under the pointer's node, of the others,
\* and after the pointer has left, in hundredths
HoverNear == 60
HoverFar == 5
HoverRest == 15

\* the test of both handlers, on the props the handlers closed over:
\* (!highlightedNodeIds || highlightedNodeIds.size === 0) && !filterState
HoverActs == ~hoverClosure.hasHighlight /\ hoverClosure.filter = NoFilter

\* "mouseover" on the node element of `id`
mouseover(id) ==
    /\ ~crashed
    /\ simExists
    /\ id \in DOMAIN opacity.nodes
    /\ opacity' = IF HoverActs
                  THEN [opacity EXCEPT !.links =
                           [key \in DOMAIN opacity.links |->
                               IF key[1] = id \/ key[2] = id THEN HoverNear ELSE HoverFar]]
                  ELSE opacity
    /\ preMerge' = NoMerge
    /\ UNCHANGED <<simAlpha, hoverClosure, nodeStyle>>
    /\ UNCHANGED engineVars
    /\ UNCHANGED appVars

\* "mouseout" on a node element
mouseout ==
    /\ ~crashed
    /\ simExists
    /\ DOMAIN opacity.nodes # {}
    /\ opacity' = IF HoverActs
                  THEN [opacity EXCEPT !.links =
                           [key \in DOMAIN opacity.links |-> HoverRest]]
                  ELSE opacity
    /\ preMerge' = NoMerge
    /\ UNCHANGED <<simAlpha, hoverClosure, nodeStyle>>
    /\ UNCHANGED engineVars
    /\ UNCHANGED appVars

\* ------------------------------------------------------------------------
\* Layout engine: ticks and the drag gesture
\* ------------------------------------------------------------------------
\* one tick: a pinned node is put at its pin with velocity 0, every other
\* node gets the position and velocity the forces give it
Tick ==
    /\ ~crashed
    /\ simExists
    /\ Len(simNodes) > 0
    /\ simAlpha.running
    /\ simAlpha' = StepAlpha(simAlpha)
    /\ UNCHANGED <<opacity, hoverClosure, nodeStyle>>
    /\ \E phase \in TickPhases :
          simNodes' = [k \in DOMAIN simNodes |->
              LET n == simNodes[k]
                  f == TickState(phase, k)
              IN  [n EXCEPT !.x = IF n.fx # NoPin THEN n.fx ELSE f.x,
                            !.y = IF n.fy # NoPin THEN n.fy ELSE f.y,
                            !.vx = IF n.fx # NoPin THEN 0 ELSE f.vx,
                            !.vy = IF n.fy # NoPin THEN 0 ELSE f.vy]]
    /\ preMerge' = NoMerge
    /\ UNCHANGED <<simExists, simLinks, drag, crashed>>
    /\ UNCHANGED appVars

\* write the pin of every simulation node that is the drag subject
SetPin(id, px, py) ==
    [k \in DOMAIN simNodes |->
        IF simNodes[k].id = id
        THEN [simNodes[k] EXCEPT !.fx = IF px = Undefined THEN simNodes[k].x ELSE px,
                                 !.fy = IF py = Undefined THEN simNodes[k].y ELSE py]
        ELSE simNodes[k]]

\* drag "start": d.fx = d.x; d.fy = d.y
DragStart(id) ==
    /\ ~crashed
    /\ simExists
    /\ drag = NoDrag
    /\ id \in NodeIdsOf(simNodes)
    /\ simNodes' = SetPin(id, Undefined, Undefined)
    /\ drag' = [id |-> id, attached |-> TRUE]
    /\ simAlpha' = [simAlpha EXCEPT !.alphaTarget = AlphaDrag, !.running = TRUE]
    /\ UNCHANGED <<opacity, hoverClosure, nodeStyle>>
    /\ preMerge' = NoMerge
    /\ UNCHANGED <<simExists, simLinks, crashed>>
    /\ UNCHANGED appVars

\* drag "drag": d.fx = event.x; d.fy = event.y
DragMove(p) ==
    /\ ~crashed
    /\ drag # NoDrag
    /\ simNodes' = IF drag.attached THEN SetPin(drag.id, p.x, p.y) ELSE simNodes
    /\ UNCHANGED viewVars
    /\ preMerge' = NoMerge
    /\ UNCHANGED <<simExists, simLinks, drag, crashed>>
    /\ UNCHANGED appVars

\* drag "end": d.fx = null; d.fy = null
DragEnd ==
    /\ ~crashed
    /\ drag # NoDrag
    /\ simNodes' = IF drag.attached THEN SetPin(drag.id, NoPin, NoPin) ELSE simNodes
    /\ drag' = NoDrag
    /\ simAlpha' = IF simExists THEN [simAlpha EXCEPT !.alphaTarget = 0] ELSE simAlpha
    /\ UNCHANGED <<opacity, hoverClosure, nodeStyle>>
    /\ preMerge' = NoMerge
    /\ UNCHANGED <<simExists, simLinks, crashed>>
    /\ UNCHANGED appVars

\* ------------------------------------------------------------------------
\* Specifications
\* ------------------------------------------------------------------------
\* the research result whose connections name the generator's labels in turn
TurnResearch ==
    [label |-> label_C, group |-> "Stock",
     connections |-> [k \in 1..MaxConnections |->
        [targetNodeLabel |-> IF k % 2 = 1 THEN LabelOf(id_a) ELSE LabelOf(id_b),
         relation |-> "hedges", effect |-> "negative"]]]

\* the application once mounted: the first search is loading; a research
\* result may have arrived already
InitWith(research) ==
    /\ graphData = [nodes |-> <<>>, links |-> <<>>]
    /\ graphStatus = "loading"
    /\ selectedNode = NoNode
    /\ isPathMode = FALSE
    /\ pathSequence = <<>>
    /\ isSimMode = FALSE
    /\ simulationResult = "null"
    /\ researchResult = research
    /\ inflight = <<Request("search", NoNode)>>
    /\ filterState = NoFilter
    /\ shakeTrigger = 0
    /\ simAlpha = AlphaRest
    /\ opacity = EmptyDom
    /\ hoverClosure = NoClosure
    /\ nodeStyle = NoStyles
    /\ simExists = FALSE
    /\ simNodes = <<>>
    /\ simLinks = <<>>
    /\ drag = NoDrag
    /\ crashed = FALSE
    /\ preMerge = NoMerge

\* the groups and effects of the legend that are clicked
LegendGroups == {"Stock", "Crypto"}
LegendEffects == {"positive", "negative"}

\* every handler of App and of the layout engine
Next ==
    \/ handleSearch
    \/ handleNoteSubmit
    \/ handleFocusNode
    \/ \E i \in DOMAIN inflight : \E resp \in GenResponses : SearchResponse(i, resp)
    \/ \E i \in DOMAIN inflight : \E resp \in GenResponses : NoteResponse(i, resp)
    \/ \E i \in DOMAIN inflight : GraphRequestFailure(i)
    \/ handleExpandNode
    \/ \E i \in DOMAIN inflight : \E resp \in GenResponses : ExpandResponse(i, resp)
    \/ \E i \in DOMAIN inflight : RequestFailure(i)
    \/ handleResearch
    \/ \E i \in DOMAIN inflight : \E result \in ResearchResults : ResearchResponse(i, result)
    \/ handleAddResearchToGraph
    \/ \E id \in AllIds : onNodeClick(id)
    \/ \E i \in DOMAIN inflight : \E impacted \in ImpactResponses : SimulateResponse(i, impacted)
    \/ togglePathMode
    \/ toggleSimMode
    \/ resetHealth
    \/ undoLastPathStep
    \/ clearPathSequence
    \/ handleJolt
    \/ \E group \in LegendGroups : handleGroupClick(group)
    \/ \E effect \in LegendEffects : handleEffectClick(effect)
    \/ \E id \in AllIds : mouseover(id)
    \/ mouseout
    \/ Tick
    \/ \E id \in AllIds : DragStart(id)
    \/ \E p \in PointerPoints : DragMove(p)
    \/ DragEnd

Init == InitWith(NoResearch)

Spec == Init /\ [][Next]_vars

\* the store operations: search, note submission, expand, add-research,
\* impact simulation, reset
InitStore == InitWith(TurnResearch)

NextStore ==
    \/ handleSearch
    \/ handleNoteSubmit
    \/ \E i \in DOMAIN inflight : \E resp \in GenResponses : SearchResponse(i, resp)
    \/ \E i \in DOMAIN inflight : \E resp \in GenResponses : NoteResponse(i, resp)
    \/ handleExpandNode
    \/ \E i \in DOMAIN inflight : \E resp \in GenResponses : ExpandResponse(i, resp)
    \/ handleAddResearchToGraph
    \/ onNodeClick(id_a)
    \/ \E i \in DOMAIN inflight : \E impacted \in ImpactResponses : SimulateResponse(i, impacted)
    \/ toggleSimMode
    \/ resetHealth

SpecStore == InitStore /\ [][NextStore]_vars

\* the layout engine under snapshots, ticks and drags
InitEngine == InitWith(TurnResearch)

\* the responses whose links all pass the generator's filter: the engine sees
\* of a response only what the filter lets through
EngineResponses == {resp \in GenResponses : ValidLinks(resp) = resp.links}

NextEngine ==
    \/ handleSearch
    \/ \E i \in DOMAIN inflight : \E resp \in EngineResponses : SearchResponse(i, resp)
    \/ handleAddResearchToGraph
    \/ Tick
    \/ \E id \in AllIds : DragStart(id)
    \/ \E p \in PointerPoints : DragMove(p)
    \/ DragEnd

SpecEngine == InitEngine /\ [][NextEngine]_vars

\* expansions of a graph that holds a research node: search, add-research,
\* expand, ticks
ExpandLinks == GenLinks \cup {Link(id_c, id_b, "drives", "positive")}

\* an expansion returns the new node B or no node
ExpandNodeLists == {<<>>, NodeList(<<id_b>>)}

ExpandResponses ==
    {[nodes |-> ns, links |-> ls] :
        ns \in ExpandNodeLists, ls \in SeqsUpTo(ExpandLinks, MaxRespLinks)}

InitExpand == InitWith(TurnResearch)

NextExpand ==
    \/ handleSearch
    \/ \E i \in DOMAIN inflight : \E resp \in GenResponses : SearchResponse(i, resp)
    \/ handleAddResearchToGraph
    \/ onNodeClick(id_a)
    \/ handleExpandNode
    \/ \E i \in DOMAIN inflight : \E resp \in ExpandResponses : ExpandResponse(i, resp)
    \/ Tick

SpecExpand == InitExpand /\ [][NextExpand]_vars

\* path finding on a loaded graph: the graphs a search can have loaded
PathIds == {id_a, id_b, id_c}

\* a link in each direction, a triangle and a self loop
PathLinks ==
    {Link(id_a, id_b, "drives", "positive"), Link(id_b, id_a, "drives", "positive"),
     Link(id_b, id_c, "drives", "positive"), Link(id_c, id_a, "drives", "positive"),
     Link(id_a, id_a, "drives", "positive")}

\* the path graph A-B-C-D
ChainGraph ==
    [nodes |-> NodeList(<<id_a, id_b, id_c, id_d>>),
     links |-> <<Link(id_a, id_b, "drives", "positive"),
                 Link(id_b, id_c, "drives", "positive"),
                 Link(id_c, id_d, "drives", "positive")>>]

\* the link of a ring edge between s and t, in the direction `forward` says
RingLink(src, tgt, forward) ==
    IF forward THEN Link(src, tgt, "drives", "positive")
    ELSE Link(tgt, src, "drives", "positive")

\* the 5-node ring A-B-C-D-E-A, the three edges around E and A in either direction
RingGraphs ==
    {[nodes |-> NodeList(<<id_a, id_b, id_c, id_d, id_e>>),
      links |-> <<RingLink(id_a, id_b, d[1]), RingLink(id_b, id_c, TRUE),
                  RingLink(id_c, id_d, TRUE), RingLink(id_d, id_e, d[2]),
                  RingLink(id_e, id_a, d[3])>>] : d \in [1..3 -> BOOLEAN]}

PathGraphs ==
    {[nodes |-> NodeList(<<id_a, id_b, id_c>>), links |-> ls] :
        ls \in SeqsUpTo(PathLinks, MaxPathLinks)}
    \cup {ChainGraph} \cup RingGraphs

\* the application after the first search has loaded the graph `g`
InitLoaded(g) ==
    /\ graphData = [nodes |-> WithRanks(g.nodes, g.links), links |-> g.links]
    /\ graphStatus = "success"
    /\ selectedNode = NoNode
    /\ isPathMode = FALSE
    /\ pathSequence = <<>>
    /\ isSimMode = FALSE
    /\ simulationResult = "null"
    /\ researchResult = NoResearch
    /\ inflight = <<>>
    /\ simExists = TRUE
    /\ simNodes = initializeNodes(SpawnNodes(<<>>, g.nodes, g.links))
    /\ simLinks = MutableLinks(g.links)
    /\ filterState = NoFilter
    /\ shakeTrigger = 0
    /\ simAlpha = [alpha |-> AlphaFull, alphaTarget |-> 0, running |-> TRUE]
    /\ opacity = JoinElements(EmptyDom, g.nodes, g.links)
    /\ hoverClosure = NoClosure
    /\ nodeStyle = JoinStyles(g.nodes, <<>>)
    /\ drag = NoDrag
    /\ crashed = FALSE
    /\ preMerge = [valid |-> TRUE, nodes |-> <<>>, dragging |-> FALSE]

InitPath == \E g \in PathGraphs : InitLoaded(g)

NextPath ==
    \/ togglePathMode
    \/ \E id \in NodeIdsOf(simNodes) : onNodeClick(id)
    \/ undoLastPathStep
    \/ clearPathSequence

SpecPath == InitPath /\ [][NextPath]_vars

\* parallel-edge detection: searches whose responses hold sibling links and
\* an id with a '-', and the research of a two-word label
CurveIds == {id_a, id_b_c, id_c}

CurveNodeLists == {NodeList(<<id_a, id_b_c, id_c>>)}

CurveLinks ==
    {Link(id_a, id_c, "drives", "positive"), Link(id_a, id_c, "hedges", "negative"),
     Link(id_c, id_a, "drives", "positive"), Link(id_a, id_b_c, "drives", "positive")}

CurveResponses ==
    {[nodes |-> ns, links |-> ls] :
        ns \in CurveNodeLists, ls \in SeqsUpTo(CurveLinks, MaxCurveLinks)}

\* the label "A B"
label_A_B == <<UpperA, Space, UpperA + 1>>

\* the research result of the label "A B" with one connection to the node "C"
DashResearch ==
    [label |-> label_A_B, group |-> "Stock",
     connections |-> <<[targetNodeLabel |-> LabelOf(id_c),
                        relation |-> "hedges", effect |-> "negative"]>>]

InitCurve == InitWith(DashResearch)

NextCurve ==
    \/ handleSearch
    \/ \E i \in DOMAIN inflight : \E resp \in CurveResponses : SearchResponse(i, resp)
    \/ handleAddResearchToGraph

SpecCurve == InitCurve /\ [][NextCurve]_vars

\* ------------------------------------------------------------------------
\* Claims
\* ------------------------------------------------------------------------
Pos(n) == <<n.x, n.y>>
Vel(n) == <<n.vx, n.vy>>

\* the ids resident in the simulation when the last step's merge began
ResidentBefore == {preMerge.nodes[j].id : j \in DOMAIN preMerge.nodes}

\* the node object resident under `id` when the last step's merge began
ResidentObject(id) == preMerge.nodes[CHOOSE j \in DOMAIN preMerge.nodes : preMerge.nodes[j].id = id]

\* C1: every edge of the Graph Store that is handed to the Layout Engine
\* has both its source id and its target id in the store's node set.
C1_EdgesHaveEndpoints ==
    ForceGraphMounted(graphStatus, graphData) =>
        \A k \in DOMAIN graphData.links :
            /\ graphData.links[k].source \in NodeIdsOf(graphData.nodes)
            /\ graphData.links[k].target \in NodeIdsOf(graphData.nodes)

\* C2: after a merge with no drag active, every node that was resident
\* before the merge and is in the incoming snapshot has the position and
\* the velocity it had right before the merge.
C2_MergeContinuity ==
    (preMerge.valid /\ ~preMerge.dragging) =>
        \A i \in DOMAIN simNodes :
            simNodes[i].id \in ResidentBefore =>
                /\ Pos(simNodes[i]) = Pos(ResidentObject(simNodes[i].id))
                /\ Vel(simNodes[i]) = Vel(ResidentObject(simNodes[i].id))

\* the incoming edges that join the new node `id` to a node resident before the merge
JoiningEdges(id) ==
    {k \in DOMAIN graphData.links :
        \/ graphData.links[k].source = id /\ graphData.links[k].target \in ResidentBefore
        \/ graphData.links[k].target = id /\ graphData.links[k].source \in ResidentBefore}

\* the other endpoint of the incoming edge k of the node `id`
OtherEnd(k, id) ==
    IF graphData.links[k].source = id THEN graphData.links[k].target
    ELSE graphData.links[k].source

\* the incoming snapshot shares an id with the resident nodes
IdOverlap == NodeIdsOf(graphData.nodes) \cap ResidentBefore # {}

\* the position of the resident node P when the new nodes are placed: the
\* coordinates its incoming node object carries, else its position before the merge
PositionAtMerge(P) ==
    LET carrying == {k \in DOMAIN graphData.nodes :
                        graphData.nodes[k].id = P /\ graphData.nodes[k].x # Undefined}
    IN  IF carrying # {}
        THEN Pos(graphData.nodes[MaxOf(carrying)])
        ELSE Pos(ResidentObject(P))

\* the position a new node has when no resident node seeds it
UnseededPosition(i) ==
    IF graphData.nodes[i].x # Undefined THEN Pos(graphData.nodes[i])
    ELSE <<Phyllotaxis(i - 1).x, Phyllotaxis(i - 1).y>>

\* C3 as stated: in an expansion every new node is at the position of every
\* resident node P an incoming edge joins it to; in a full replacement no
\* node is seeded from a resident node.
C3_AnchoredAtEveryParent ==
    preMerge.valid =>
        \A i \in DOMAIN simNodes :
            simNodes[i].id \notin ResidentBefore =>
                IF IdOverlap
                THEN \A k \in JoiningEdges(simNodes[i].id) :
                        Pos(simNodes[i]) = Pos(ResidentObject(OtherEnd(k, simNodes[i].id)))
                ELSE Pos(simNodes[i]) = UnseededPosition(i)

\* C3 amended: in an expansion a new node joined to resident nodes is at the
\* position of the resident endpoint of the first such edge of the incoming
\* edge list; in a full replacement no node is seeded from a resident node.
C3_AnchoredAtFirstParent ==
    preMerge.valid =>
        \A i \in DOMAIN simNodes :
            simNodes[i].id \notin ResidentBefore =>
                IF IdOverlap /\ JoiningEdges(simNodes[i].id) # {}
                THEN Pos(simNodes[i]) =
                        PositionAtMerge(OtherEnd(MinOf(JoiningEdges(simNodes[i].id)),
                                                 simNodes[i].id))
                ELSE Pos(simNodes[i]) = UnseededPosition(i)

\* C3 witness: an expansion has placed a new node that two edges join to
\* two resident nodes at different positions.
C3_Witness ==
    /\ preMerge.valid
    /\ IdOverlap
    /\ \E i \in DOMAIN simNodes :
          /\ simNodes[i].id \notin ResidentBefore
          /\ \E k1, k2 \in JoiningEdges(simNodes[i].id) :
                Pos(ResidentObject(OtherEnd(k1, simNodes[i].id)))
                    # Pos(ResidentObject(OtherEnd(k2, simNodes[i].id)))

\* C4: after every merge the simulation holds exactly the ids of the
\* incoming snapshot, and a node that was not resident when the merge began
\* (also one that was resident earlier) has no pin and no velocity.
C4_SimulationHoldsSnapshot ==
    preMerge.valid =>
        /\ NodeIdsOf(simNodes) = NodeIdsOf(graphData.nodes)
        /\ \A i \in DOMAIN simNodes :
              simNodes[i].id \notin ResidentBefore =>
                  /\ simNodes[i].fx = NoPin /\ simNodes[i].fy = NoPin
                  /\ Vel(simNodes[i]) = <<0, 0>>
                  /\ \/ Pos(simNodes[i]) = UnseededPosition(i)
                     \/ /\ JoiningEdges(simNodes[i].id) # {}
                        /\ Pos(simNodes[i]) =
                              PositionAtMerge(OtherEnd(MinOf(JoiningEdges(simNodes[i].id)),
                                                       simNodes[i].id))

\* C4 witness: the node of an active drag was removed by a merge and a later
\* merge has supplied its id again; another resident node was removed.
C4_Witness ==
    /\ preMerge.valid
    /\ drag.id # NoNode /\ ~drag.attached
    /\ drag.id \in NodeIdsOf(simNodes)
    /\ drag.id \notin ResidentBefore
    /\ ResidentBefore \ NodeIdsOf(simNodes) # {}

\* the ids one step or less away from S, links taken as undirected
Neighbourhood(S, links) ==
    S \cup {links[k].target : k \in {j \in DOMAIN links : links[j].source \in S}}
      \cup {links[k].source : k \in {j \in DOMAIN links : links[j].target \in S}}

\* the ids at most k steps away from s
RECURSIVE Ball(_, _, _)
Ball(s, k, links) ==
    IF k = 0 THEN {s} ELSE Neighbourhood(Ball(s, k - 1, links), links)

Reachable(s, t, links) == t \in Ball(s, Len(links), links)

\* the minimum hop count between s and t
Distance(s, t, links) == MinOf({k \in 0..Len(links) : t \in Ball(s, k, links)})

\* res is a simple path from s to t over existing links, of `hops` hops
IsSimplePath(res, s, t, hops, links) ==
    /\ Cardinality(res.nodes) = hops + 1
    /\ \A key \in res.links :
          \E k \in DOMAIN links : PairKey(links[k].source, links[k].target) = key
    /\ \E p \in [1..(hops + 1) -> res.nodes] :
          /\ p[1] = s /\ p[hops + 1] = t
          /\ \A i, j \in DOMAIN p : i # j => p[i] # p[j]
          /\ \A i \in 1..hops :
                \E k \in DOMAIN links :
                    /\ {links[k].source, links[k].target} = {p[i], p[i + 1]}
                    /\ PairKey(links[k].source, links[k].target) \in res.links
          /\ Cardinality(res.links) <= hops

JoinedPairs ==
    {i \in 1..(Len(pathSequence) - 1) :
        Reachable(pathSequence[i], pathSequence[i + 1], graphData.links)}

\* C6: with at least two waypoints the path result is null exactly when no
\* consecutive waypoint pair has a path; else its nodes are the nodes of all
\* successful segments plus every waypoint and its links are the edge keys
\* of the successful segments.
C6_PartialPathResult ==
    Len(pathSequence) >= 2 =>
        LET res == pathResultOf(pathSequence, graphData.links)
            seg(i) == findShortestPath(pathSequence[i], pathSequence[i + 1],
                                       graphData.links)
        IN  /\ res.found <=> JoinedPairs # {}
            /\ res.found =>
                  /\ res.nodes = UNION {seg(i).nodes : i \in JoinedPairs}
                                    \cup Range(pathSequence)
                  /\ res.links = UNION {seg(i).links : i \in JoinedPairs}

\* C6 witness: of three waypoints the first pair has no path and the second
\* pair is joined by an edge.
C6_Witness ==
    /\ Len(pathSequence) = 3
    /\ JoinedPairs = {2}
    /\ Distance(pathSequence[2], pathSequence[3], graphData.links) = 1

\* C7: in path mode every selected waypoint id is in the highlighted node set.
C7_WaypointsHighlighted ==
    (isPathMode /\ Len(pathSequence) > 0) =>
        LET shown == highlightedNodeIdsOf(isPathMode, pathSequence, graphData.links)
        IN  /\ ~shown.isNull
            /\ \A i \in DOMAIN pathSequence : pathSequence[i] \in shown.ids

\* C7 witness: the two waypoints A and C have no path between them.
C7_Witness ==
    /\ isPathMode /\ pathSequence = <<id_a, id_c>>
    /\ ~Reachable(id_a, id_c, graphData.links)

\* C7 second witness state: the degenerate waypoints [A, A].
C7_WitnessDegenerate ==
    /\ isPathMode /\ pathSequence = <<id_a, id_a>>

\* the 5-node ring is loaded and the waypoints are [A, D]
RingFromAToD ==
    /\ \E g \in RingGraphs : graphData.links = g.links
    /\ isPathMode /\ pathSequence = <<id_a, id_d>>

\* C8 as stated: on the 5-node ring with waypoints [A, D] the path has 2
\* hops and the result node set has exactly 4 nodes.
C8_RingFourNodes ==
    RingFromAToD =>
        LET res == pathResultOf(pathSequence, graphData.links)
        IN  /\ res.found
            /\ Cardinality(res.links) = 2
            /\ Cardinality(res.nodes) = 4

\* C8 amended: on the 5-node ring with waypoints [A, D] the path has 2 hops
\* and the result node set has exactly the 3 nodes A, E, D.
C8_RingThreeNodes ==
    RingFromAToD =>
        LET res == pathResultOf(pathSequence, graphData.links)
        IN  /\ res.found
            /\ Cardinality(res.links) = 2
            /\ res.nodes = {id_a, id_e, id_d}

\* C8 witness: the ring A->B->C->D->E->A is loaded and A, D are the waypoints.
C8_Witness ==
    /\ RingFromAToD
    /\ graphData.links[1] = Link(id_a, id_b, "drives", "positive")
    /\ graphData.links[4] = Link(id_d, id_e, "drives", "positive")
    /\ graphData.links[5] = Link(id_e, id_a, "drives", "positive")

\* the links of the simulation other than k that join the same unordered
\* pair of node ids as the link k
Siblings(k) ==
    {j \in DOMAIN simLinks \ {k} :
        {simLinks[j].source, simLinks[j].target}
            = {simLinks[k].source, simLinks[k].target}}

\* C9: every edge for which the incoming list holds another edge joining
\* the same unordered pair of endpoints is flagged curved.
C9_SiblingsCurved ==
    \A k \in DOMAIN simLinks : Siblings(k) # {} => simLinks[k].isCurved

\* C9 witness: a merge has bucketed an edge together with its reverse.
C9_Witness ==
    \E k \in DOMAIN simLinks : \E j \in Siblings(k) :
        /\ simLinks[k].source # simLinks[k].target
        /\ simLinks[j].source = simLinks[k].target
        /\ simLinks[j].target = simLinks[k].source
        /\ simLinks[j].isCurved /\ simLinks[k].isCurved

\* C10: an edge that no other edge of the incoming list joins on the same
\* unordered pair of node ids is flagged straight, whatever the id strings.
C10_LoneEdgeStraight ==
    \A k \in DOMAIN simLinks : Siblings(k) = {} => ~simLinks[k].isCurved

\* C11: a self-loop (source and target the same node) that appears once in
\* the edge list is flagged curved.
C11_SelfLoopCurved ==
    \A k \in DOMAIN simLinks :
        simLinks[k].source = simLinks[k].target => simLinks[k].isCurved

\* ------------------------------------------------------------------------
\* Growth of the store: expand and add-research on a loaded graph, with
\* responses that repeat an id, reuse a stored id, or carry an edge under
\* another relation
\* ------------------------------------------------------------------------
GrowNodeLists ==
    {<<>>, NodeList(<<id_b>>), NodeList(<<id_b, id_b>>), NodeList(<<id_a>>)}

GrowLinks ==
    {Link(id_a, id_b, "drives", "positive"), Link(id_a, id_b, "hedges", "negative")}

GrowResponses ==
    {[nodes |-> ns, links |-> ls] :
        ns \in GrowNodeLists, ls \in SeqsUpTo(GrowLinks, MaxRespLinks)}

InitGrow == InitWith(TurnResearch)

NextGrow ==
    \/ handleSearch
    \/ \E i \in DOMAIN inflight : \E resp \in GenResponses : SearchResponse(i, resp)
    \/ onNodeClick(id_a)
    \/ handleExpandNode
    \/ \E i \in DOMAIN inflight : \E resp \in GrowResponses : ExpandResponse(i, resp)
    \/ handleAddResearchToGraph

SpecGrow == InitGrow /\ [][NextGrow]_vars

\* the step resumes the request i of the given kind
Resumes(i, kind) == inflight[i].kind = kind /\ inflight' = Resume(i)

\* C12: no expand discards an incoming edge because the store already holds
\* an edge with the same source and target: after the expansion has merged
\* a response, every edge of the response is an edge of the store.
C12_IncomingEdgesKept ==
    [][\A resp \in GrowResponses :
          ((\E i \in DOMAIN inflight : Resumes(i, "expand"))
              /\ graphData' = ExpandMerge(graphData, ExpandResult(resp)))
          => \A k \in DOMAIN resp.links : resp.links[k] \in Range(graphData'.links)]_vars

DistinctIds(nodes) ==
    \A i, j \in DOMAIN nodes : i # j => nodes[i].id # nodes[j].id

\* C13: an expand or an add-research on a store whose node ids are pairwise
\* distinct leaves them pairwise distinct, in the store and in the simulation.
C13_IdsStayDistinct ==
    [][(DistinctIds(graphData.nodes)
          /\ ~(\E i \in DOMAIN inflight : Resumes(i, "search")))
        => (DistinctIds(graphData'.nodes)
              /\ (simExists' => DistinctIds(simNodes')))]_vars

\* ------------------------------------------------------------------------
\* Ranking (types.ts, calculateNodeRanks)
\* ------------------------------------------------------------------------
\* scores are held in fixed point: ScoreScale units make the score 1
ScoreScale == 1000000
\* the damping factor 0.85, in hundredths
dampingFactor == 85
iterations == 20
\* the score Not-a-Number: every sum, quotient and comparison with it is NaN
NaN == -1

Plus(x, y) == IF x = NaN \/ y = NaN THEN NaN ELSE x + y
Over(x, n) == IF x = NaN THEN NaN ELSE x \div n
Damped(x) == IF x = NaN THEN NaN ELSE (dampingFactor * x) \div 100

\* the record `ranks` is a set of pairs <<id, score>>, one for every key;
\* ranks[id] is undefined for an id that is no key, and undefined / deg is NaN
ScoreOf(ranks, id) ==
    IF \E p \in ranks : p[1] = id THEN (CHOOSE p \in ranks : p[1] = id)[2] ELSE NaN

ScoresOf(ranks) == {p[2] : p \in ranks}

\* inboundMap[id]: the sources of the links into the node id, in link order
InboundMap(links, id) ==
    LET into == FilterSeq(links, [k \in DOMAIN links |-> links[k].target = id])
    IN  [k \in DOMAIN into |-> into[k].source]

\* outDegree[id]: one for every link that names id as its source
OutDegree(links, id) == Cardinality({k \in DOMAIN links : links[k].source = id})

RECURSIVE SinkRankSum(_, _, _, _)
\* the scores of the first n nodes that have no outgoing link, added up
SinkRankSum(nodes, links, ranks, n) ==
    IF n = 0 THEN 0
    ELSE LET rest == SinkRankSum(nodes, links, ranks, n - 1)
         IN  IF OutDegree(links, nodes[n].id) = 0
             THEN Plus(rest, ScoreOf(ranks, nodes[n].id))
             ELSE rest

RECURSIVE RankSum(_, _, _, _)
\* what the first n inbound neighbours hand over: ranks[sourceId] / deg each
RankSum(inbound, links, ranks, n) ==
    IF n = 0 THEN 0
    ELSE LET sourceId == inbound[n]
             deg == IF OutDegree(links, sourceId) = 0 THEN 1
                    ELSE OutDegree(links, sourceId)
         IN  Plus(RankSum(inbound, links, ranks, n - 1),
                  Over(ScoreOf(ranks, sourceId), deg))

RECURSIVE InPlace(_, _, _, _, _)
\* the first n nodes rescored one after the other, each reading the scores
\* already replaced
InPlace(nodes, links, ranks, sinkRankSum, n) ==
    IF n = 0 THEN ranks
    ELSE CHOOSE result \in
            {LET id == nodes[n].id
                 inbound == InboundMap(links, id)
                 rankSum == RankSum(inbound, links, cur, Len(inbound))
             IN  {q \in cur : q[1] # id}
                 \cup {<<id, Plus(((100 - dampingFactor) * ScoreScale) \div (100 * Len(nodes)),
                                  Damped(Plus(rankSum, Over(sinkRankSum, Len(nodes)))))>>} :
                cur \in {InPlace(nodes, links, ranks, sinkRankSum, n - 1)}} : TRUE

\* a pass that writes each new score into the record the pass reads
NewRanks_inPlace(nodes, links, ranks) ==
    InPlace(nodes, links, ranks, SinkRankSum(nodes, links, ranks, Len(nodes)), Len(nodes))

\* one pass of the iteration: newRanks of every node id
NewRanks(nodes, links, ranks) ==
    LET N == Len(nodes)
        sinkRankSum == SinkRankSum(nodes, links, ranks, N)
    IN  {<<id, LET inbound == InboundMap(links, id)
                   rankSum == RankSum(inbound, links, ranks, Len(inbound))
               IN  Plus(((100 - dampingFactor) * ScoreScale) \div (100 * N),
                        Damped(Plus(rankSum, Over(sinkRankSum, N))))>> :
            id \in NodeIdsOf(nodes)}

RECURSIVE RankLoop(_, _, _, _)
\* the passes one after the other; newRanks is bound as a value before the
\* next pass reads it
RankLoop(nodes, links, ranks, i) ==
    IF i = 0 THEN ranks
    ELSE CHOOSE result \in
            {RankLoop(nodes, links, newRanks, i - 1) :
                newRanks \in {NewRanks(nodes, links, ranks)}} : TRUE

\* the scores after the iterations
FinalScores(nodes, links) ==
    RankLoop(nodes, links, {<<id, ScoreScale \div Len(nodes)>> : id \in NodeIdsOf(nodes)},
             iterations)

\* Math.max and Math.min over the scores: NaN when one of them is NaN
MaxRank(ranks) == IF NaN \in ScoresOf(ranks) THEN NaN ELSE MaxOf(ScoresOf(ranks))
MinRank(ranks) == IF NaN \in ScoresOf(ranks) THEN NaN ELSE MinOf(ScoresOf(ranks))

\* maxRank - minRank || 1: the fallback 1 for a difference of 0 or NaN
RankRange(ranks) ==
    IF MaxRank(ranks) = NaN \/ MaxRank(ranks) - MinRank(ranks) = 0 THEN ScoreScale
    ELSE MaxRank(ranks) - MinRank(ranks)

\* a rank that subtracts no minimum: the score as a share of the maximum
NormalRank_noMin(ranks, id) ==
    IF MinRank(ranks) = NaN THEN NaN
    ELSE (200 * ScoreOf(ranks, id) + MaxRank(ranks)) \div (2 * MaxRank(ranks))

\* Math.round(((ranks[id] - minRank) / range) * 100)
NormalRank(ranks, id) ==
    IF MinRank(ranks) = NaN THEN NaN
    ELSE (200 * (ScoreOf(ranks, id) - MinRank(ranks)) + RankRange(ranks))
            \div (2 * RankRange(ranks))

calculateNodeRanks(nodes, links) ==
    IF Len(nodes) = 0 THEN nodes
    ELSE LET ranks == FinalScores(nodes, links)
         IN  [i \in DOMAIN nodes |->
                [rank |-> NormalRank(ranks, nodes[i].id)] @@ nodes[i]]

\* the graphs handed to the ranking: id_d is never among the nodes
MaxRankLinks == 2
RankIds == {id_a, id_b, id_c}
RankNodeLists ==
    {<<>>, NodeList(<<id_a>>), NodeList(<<id_a, id_b>>), NodeList(<<id_a, id_b, id_c>>)}
RankLinks ==
    {Link(s, t, "drives", "positive") : s, t \in RankIds \cup {id_d}}
RankGraphs ==
    {[nodes |-> ns, links |-> ls] :
        ns \in RankNodeLists, ls \in SeqsUpTo(RankLinks, MaxRankLinks)}

\* the generated graph is at hand and has not been ranked yet
InitRank ==
    /\ graphData \in RankGraphs
    /\ graphStatus = "loading"
    /\ selectedNode = NoNode
    /\ isPathMode = FALSE
    /\ pathSequence = <<>>
    /\ isSimMode = FALSE
    /\ simulationResult = "null"
    /\ researchResult = NoResearch
    /\ inflight = <<>>
    /\ filterState = NoFilter
    /\ shakeTrigger = 0
    /\ simAlpha = AlphaRest
    /\ opacity = EmptyDom
    /\ hoverClosure = NoClosure
    /\ nodeStyle = NoStyles
    /\ simExists = FALSE
    /\ simNodes = <<>>
    /\ simLinks = <<>>
    /\ drag = NoDrag
    /\ crashed = FALSE
    /\ preMerge = NoMerge

\* rankedNodes = calculateNodeRanks(data.nodes, data.links), then stored
RankGraph ==
    /\ graphStatus = "loading"
    /\ graphData' = [nodes |-> calculateNodeRanks(graphData.nodes, graphData.links),
                     links |-> graphData.links]
    /\ graphStatus' = "success"
    /\ UNCHANGED <<selectedNode, isPathMode, pathSequence, isSimMode, simulationResult,
                   researchResult, inflight, filterState, shakeTrigger, engineVars,
                   viewVars, preMerge>>

NextRank == RankGraph
SpecRank == InitRank /\ [][NextRank]_vars

\* every link runs between two ids of the node list
ValidEdges(nodes, links) ==
    \A k \in DOMAIN links :
        links[k].source \in NodeIdsOf(nodes) /\ links[k].target \in NodeIdsOf(nodes)

\* the ranks that the stored nodes carry
StoredRanks == {graphData.nodes[i].rank : i \in DOMAIN graphData.nodes}

\* a non-empty node list with valid edges has been ranked
RankedValid ==
    /\ graphStatus = "success"
    /\ Len(graphData.nodes) > 0
    /\ ValidEdges(graphData.nodes, graphData.links)

\* C14: for a non-empty node list with valid edges every rank lies in 0..100;
\* when the final scores are not all equal the least rank is 0 and the
\* greatest is 100; when they are all equal every node has the same defined rank.
C14_RankNormalized ==
    RankedValid =>
        LET scores == ScoresOf(FinalScores(graphData.nodes, graphData.links))
        IN  /\ StoredRanks \subseteq 0..100
            /\ Cardinality(scores) > 1 => (0 \in StoredRanks /\ 100 \in StoredRanks)
            /\ Cardinality(scores) = 1 => Cardinality(StoredRanks) = 1

\* three nodes ranked on three levels: the least, one in between, the greatest
C14_Witness ==
    /\ RankedValid
    /\ Cardinality(StoredRanks) = 3

\* a directed cycle ranked: all the final scores are equal
C14_WitnessCycle ==
    /\ RankedValid
    /\ Len(graphData.links) = 2
    /\ graphData.links[1].source = graphData.links[2].target
    /\ graphData.links[2].source = graphData.links[1].target
    /\ graphData.links[1].source # graphData.links[1].target
    /\ Len(graphData.nodes) = 2
    /\ Cardinality(StoredRanks) = 1

\* the links that run between two ids of the node list
DropInvalid(nodes, links) ==
    FilterSeq(links, [k \in DOMAIN links |->
        links[k].source \in NodeIdsOf(nodes) /\ links[k].target \in NodeIdsOf(nodes)])

\* C15: when the edge list holds an edge whose source or target is not in the
\* node list, every node gets a defined rank in 0..100, the same rank that it
\* gets when the invalid edges are dropped before the ranking.
C15_InvalidEdgeDropped ==
    (/\ graphStatus = "success"
     /\ Len(graphData.nodes) > 0
     /\ ~ValidEdges(graphData.nodes, graphData.links))
    => /\ StoredRanks \subseteq 0..100
       /\ graphData.nodes =
            calculateNodeRanks(graphData.nodes,
                               DropInvalid(graphData.nodes, graphData.links))

\* the simulation nodes that carry the id of the drag subject
DragSubjects == {k \in DOMAIN simNodes : simNodes[k].id = drag.id}

\* the last step was a merge that began while a drag gesture was in progress
MergedWhileDragging == preMerge.valid /\ preMerge.dragging /\ drag # NoDrag

\* C17: a merge that arrives while the node X is dragged leaves X's pin in
\* place, whether the snapshot contains X's id or omits it: until the drag is
\* released the resident node X is pinned, and a pointer move writes the
\* pointer position to X's pin.
C17_PinHeldUntilRelease ==
    /\ drag # NoDrag =>
          \A k \in DragSubjects : simNodes[k].fx # NoPin /\ simNodes[k].fy # NoPin
    /\ MergedWhileDragging =>
          \A j \in DOMAIN preMerge.nodes :
              (preMerge.nodes[j].id = drag.id /\ preMerge.nodes[j].fx # NoPin)
              => \E k \in DragSubjects : simNodes[k].fx = preMerge.nodes[j].fx

\* a resident node is pinned exactly when the drag gesture is on its id
PinnedIffDragged ==
    \A k \in DOMAIN simNodes :
        (simNodes[k].fx # NoPin /\ simNodes[k].fy # NoPin)
            <=> (drag # NoDrag /\ simNodes[k].id = drag.id)

\* the step leaves every simulation node but those of the id untouched
OthersUntouched(id) ==
    /\ DOMAIN simNodes' = DOMAIN simNodes
    /\ \A k \in DOMAIN simNodes : simNodes[k].id # id => simNodes'[k] = simNodes[k]

\* C18: the drag state machine: in every reachable state a resident node is
\* pinned exactly when it is being dragged; drag-start pins the node at its
\* position, a drag-move writes the pointer position to its pin, drag-end
\* clears the pin, and no drag event changes another node.
C18_DragStateMachine ==
    [][/\ PinnedIffDragged'
       /\ \A id \in AllIds :
            DragStart(id) =>
                /\ OthersUntouched(id)
                /\ \A k \in DOMAIN simNodes :
                      simNodes[k].id = id =>
                          simNodes'[k].fx = simNodes[k].x /\ simNodes'[k].fy = simNodes[k].y
       /\ \A p \in PointerPoints :
            DragMove(p) =>
                /\ OthersUntouched(drag.id)
                /\ \A k \in DragSubjects : simNodes'[k].fx = p.x /\ simNodes'[k].fy = p.y
       /\ DragEnd =>
                /\ OthersUntouched(drag.id)
                /\ \A k \in DragSubjects : simNodes'[k].fx = NoPin /\ simNodes'[k].fy = NoPin
      ]_vars

\* searches and note submissions, with every generated graph of the bounds,
\* and the ticks of the layout between them
InitEmpty == InitWith(NoResearch)

NextEmpty ==
    \/ handleSearch
    \/ handleNoteSubmit
    \/ \E i \in DOMAIN inflight : \E resp \in GenResponses : SearchResponse(i, resp)
    \/ \E i \in DOMAIN inflight : \E resp \in GenResponses : NoteResponse(i, resp)
    \/ Tick

SpecEmpty == InitEmpty /\ [][NextEmpty]_vars

\* C20 (as the code has it): a search whose generated graph has zero nodes
\* ends with an empty store, the status 'success' and an empty simulation;
\* a note submission whose generated graph has zero nodes is rejected: it
\* ends with the status 'error' and leaves the store as it was. Neither
\* faults the layout engine, the ranking of zero nodes is the empty list, and
\* the path result is "no path".
C20_ZeroNodesSearchOnly ==
    [][\A i \in DOMAIN inflight : \A resp \in GenResponses :
          /\ (Len(resp.nodes) = 0 /\ SearchResponse(i, resp))
             => /\ graphData'.nodes = <<>>
                /\ graphStatus' = "success"
                /\ calculateNodeRanks(resp.nodes, ValidLinks(resp)) = <<>>
                /\ simExists' /\ simNodes' = <<>> /\ ~crashed'
                /\ pathResultOf(pathSequence', graphData'.links) = NoPath
          /\ (Len(resp.nodes) = 0 /\ NoteResponse(i, resp))
             => /\ graphData' = graphData
                /\ graphStatus' = "error"
                /\ calculateNodeRanks(resp.nodes, ValidLinks(resp)) = <<>>
                /\ ~crashed'
                /\ pathResultOf(pathSequence', graphData'.links) = NoPath]_vars

\* a note submission with zero nodes was rejected while the store held a graph
C20_Witness ==
    /\ graphStatus = "error"
    /\ Len(graphData.nodes) > 0
    /\ simExists
    /\ ~crashed

\* a search with zero nodes has ended with an empty store and simulation
C20_WitnessSearch ==
    /\ graphStatus = "success"
    /\ graphData.nodes = <<>>
    /\ simExists
    /\ simNodes = <<>>
    /\ ~crashed

\* C20: a graph with zero nodes is no fault: a search or a note submission
\* whose generated graph has zero nodes ends with an empty store and a status
\* other than 'error'; the ranking of it is the empty list, the merge yields
\* an empty simulation, and the path result is "no path".
C20_ZeroNodesNoFault ==
    [][\A i \in DOMAIN inflight : \A resp \in GenResponses :
          (Len(resp.nodes) = 0 /\ (SearchResponse(i, resp) \/ NoteResponse(i, resp)))
          => /\ graphData'.nodes = <<>>
             /\ graphStatus' # "error"
             /\ calculateNodeRanks(resp.nodes, ValidLinks(resp)) = <<>>
             /\ simExists' /\ simNodes' = <<>> /\ ~crashed'
             /\ pathResultOf(pathSequence', graphData'.links) = NoPath]_vars

\* ------------------------------------------------------------------------
\* Path highlight and legend filter on a graph that grows
\* ------------------------------------------------------------------------
\* the graph A -> B is loaded, and the research result of C is at hand
ViewGraph ==
    [nodes |-> NodeList(<<id_a, id_b>>),
     links |-> <<Link(id_a, id_b, "drives", "positive")>>]

\* the research result of C with the one connection to A
ViewResearch ==
    [label |-> label_C, group |-> "Stock",
     connections |-> <<[targetNodeLabel |-> LabelOf(id_a),
                        relation |-> "hedges", effect |-> "negative"]>>]

InitView ==
    /\ graphData = ViewGraph
    /\ graphStatus = "success"
    /\ selectedNode = NoNode
    /\ isPathMode = FALSE
    /\ pathSequence = <<>>
    /\ isSimMode = FALSE
    /\ simulationResult = "null"
    /\ researchResult = ViewResearch
    /\ inflight = <<>>
    /\ filterState = NoFilter
    /\ shakeTrigger = 0
    /\ simExists = TRUE
    /\ simNodes = initializeNodes(SpawnNodes(<<>>, ViewGraph.nodes, ViewGraph.links))
    /\ simLinks = MutableLinks(ViewGraph.links)
    /\ drag = NoDrag
    /\ crashed = FALSE
    /\ simAlpha = [alpha |-> AlphaFull, alphaTarget |-> 0, running |-> TRUE]
    /\ opacity = JoinElements(EmptyDom, ViewGraph.nodes, ViewGraph.links)
    /\ hoverClosure = NoClosure
    /\ nodeStyle = JoinStyles(ViewGraph.nodes, <<>>)
    /\ preMerge = [valid |-> TRUE, nodes |-> <<>>, dragging |-> FALSE]

NextView ==
    \/ togglePathMode
    \/ \E id \in NodeIdsOf(simNodes) : onNodeClick(id)
    \/ undoLastPathStep
    \/ clearPathSequence
    \/ \E group \in LegendGroups : handleGroupClick(group)
    \/ \E effect \in LegendEffects : handleEffectClick(effect)
    \/ handleAddResearchToGraph

SpecView == InitView /\ [][NextView]_vars

\* the highlighted sets of the current render
HighlightedNodes == highlightedNodeIdsOf(isPathMode, pathSequence, graphData.links)
HighlightedLinks == highlightedLinkIdsOf(isPathMode, pathSequence, graphData.links)

\* C16: whenever the highlighted node set is non-empty, membership in the
\* highlighted sets alone decides the opacity of every node and every edge: a
\* node of the set is fully visible and a node outside it is dimmed, whatever
\* the legend filter says, and so for the edges.
C16_HighlightDecidesOpacity ==
    (simExists /\ ~crashed /\ HasPathHighlight(HighlightedNodes)) =>
        /\ \A id \in DOMAIN opacity.nodes :
              opacity.nodes[id] =
                  IF id \in HighlightedNodes.ids THEN NODE_OPACITY_ACTIVE
                  ELSE NODE_OPACITY_DIMMED
        /\ \A key \in DOMAIN opacity.links :
              opacity.links[key] =
                  IF ~HighlightedLinks.isNull /\ PairKey(key[1], key[2]) \in HighlightedLinks.ids
                  THEN LINK_BASE_OPACITY_ACTIVE
                  ELSE LINK_BASE_OPACITY_DIMMED

\* ---------------------------------------------------------------------
\* Jolt: searches that build the simulation, ticks that cool it, drags
\* that hold its target up, and the Jolt button
\* ---------------------------------------------------------------------
InitJolt == InitWith(NoResearch)

NextJolt ==
    \/ handleSearch
    \/ \E i \in DOMAIN inflight : \E resp \in GenResponses : SearchResponse(i, resp)
    \/ Tick
    \/ \E id \in AllIds : DragStart(id)
    \/ DragEnd
    \/ handleJolt

SpecJolt == InitJolt /\ [][NextJolt]_vars

\* what a jolt leaves alone: the Graph Store, the other App state, the
\* simulation's nodes (data fields, positions, pins) and links, the
\* gesture, the alpha target, and the opacities of the elements
JoltFrame ==
    /\ UNCHANGED <<graphData, graphStatus, selectedNode, isPathMode, pathSequence,
                   isSimMode, simulationResult, researchResult, inflight, filterState>>
    /\ UNCHANGED <<simExists, simNodes, simLinks, drag, crashed, opacity, hoverClosure>>
    /\ simAlpha'.alphaTarget = simAlpha.alphaTarget

\* C19 (as the code has it): a jolt of an existing simulation sets its
\* energy to 0.8 and restarts the timer, whether the timer was running or
\* had stopped, and changes nothing else: not the nodes, the links, any
\* node's fields, position or pin, nor the Graph Store.
\* While no simulation exists a jolt changes nothing but the jolt counter.
C19_JoltSetsEnergy ==
    [][ /\ (handleJolt /\ simExists) =>
            /\ simAlpha'.alpha = AlphaJolt
            /\ simAlpha'.running
            /\ JoltFrame
        /\ (handleJolt /\ ~simExists) =>
            /\ simAlpha' = simAlpha
            /\ JoltFrame ]_vars

\* C19 (as stated): the same, with the energy never lower after the jolt
\* than before it.
C19_JoltRaisesEnergy ==
    [][ (handleJolt /\ simExists) =>
            /\ simAlpha'.alpha >= simAlpha.alpha
            /\ simAlpha'.alpha > 0
            /\ simAlpha'.running
            /\ JoltFrame ]_vars

\* a simulation that has been jolted: its energy is at 0.8 and it ticks
C19_Witness ==
    /\ simExists
    /\ shakeTrigger > 0
    /\ simAlpha.alpha = AlphaJolt
    /\ simAlpha.running
    /\ Len(simNodes) > 0

\* a simulation that has cooled to a stop, where the Jolt button is pressed next
C19_CooledBeforeJolt ==
    /\ simExists
    /\ ~simAlpha.running
    /\ Len(simNodes) > 0
    /\ ENABLED handleJolt

\* ---------------------------------------------------------------------
\* Hover: the pointer over and off the nodes of a rendered graph, between
\* path-mode picks and legend clicks
\* ---------------------------------------------------------------------
InitHover == InitView

NextHover ==
    \/ togglePathMode
    \/ \E id \in NodeIdsOf(simNodes) : onNodeClick(id)
    \/ clearPathSequence
    \/ \E group \in LegendGroups : handleGroupClick(group)
    \/ \E effect \in LegendEffects : handleEffectClick(effect)
    \/ \E id \in NodeIdsOf(simNodes) : mouseover(id)
    \/ mouseout

SpecHover == InitHover /\ [][NextHover]_vars

\* a path highlight or a legend filter is active in the props of ForceGraph
EmphasisActive ==
    \/ HasPathHighlight(highlightedNodeIdsOf(isPathMode, pathSequence, graphData.links))
    \/ filterState # NoFilter

\* C21: whenever a path highlight or an attribute filter is active, the
\* pointer coming over a node or leaving it changes the opacity of no edge,
\* also when the filter was set or cleared after the last merge ran.
C21_HoverSuppressed ==
    [][ (EmphasisActive /\ (mouseout \/ \E id \in NodeIdsOf(simNodes) : mouseover(id)))
           => opacity' = opacity ]_vars

\* C21, for the path highlight alone: it is suppressed in every state
C21_HoverSuppressedOnPath ==
    [][ (HasPathHighlight(highlightedNodeIdsOf(isPathMode, pathSequence, graphData.links))
         /\ (mouseout \/ \E id \in NodeIdsOf(simNodes) : mouseover(id)))
           => opacity' = opacity ]_vars

\* ---------------------------------------------------------------------
\* Node borders: the two modes, the clicks they route, and the responses
\* of the impact simulation, on a chain A -> B -> C and on A -> B with C alone
\* ---------------------------------------------------------------------
StyleGraphs ==
    {[nodes |-> NodeList(<<id_a, id_b, id_c>>),
      links |-> <<Link(id_a, id_b, "drives", "positive"),
                  Link(id_b, id_c, "drives", "positive")>>],
     [nodes |-> NodeList(<<id_a, id_b, id_c>>),
      links |-> <<Link(id_a, id_b, "drives", "positive")>>]}

\* the responses of simulateEcosystemChange that are drawn
StyleImpacts ==
    {<<>>, <<[id |-> id_b, health |-> "bullish"]>>,
     <<[id |-> id_b, health |-> "volatile"], [id |-> id_c, health |-> "neutral"]>>}

InitStyle == \E g \in StyleGraphs : InitLoaded(g)

NextStyle ==
    \/ togglePathMode
    \/ toggleSimMode
    \/ \E id \in NodeIdsOf(simNodes) : onNodeClick(id)
    \/ \E i \in DOMAIN inflight : \E impacted \in StyleImpacts : SimulateResponse(i, impacted)
    \/ resetHealth
    \/ undoLastPathStep

SpecStyle == InitStyle /\ [][NextStyle]_vars

\* the statuses that count as active, and the borders of the three tiers
ActiveStatuses == {"bearish", "bullish", "volatile"}
StatusBorder(status) ==
    IF status = "bearish" THEN StyleOf("#ef4444", 40, "none")
    ELSE IF status = "bullish" THEN StyleOf("#10b981", 40, "none")
    ELSE StyleOf("#f59e0b", 40, "2,2")
FirstBorder == StyleOf("#3b82f6", 40, "none")
LastBorder == StyleOf("#f97316", 40, "none")
InteriorBorder == StyleOf("#eab308", 40, "none")

\* the borders a waypoint may show: one for each place it has in the sequence
RoleBorders(seq, id) ==
    {FirstBorder : k \in {k \in DOMAIN seq : seq[k] = id /\ k = 1}}
    \cup {LastBorder : k \in {k \in DOMAIN seq : seq[k] = id /\ k = Len(seq)}}
    \cup {InteriorBorder : k \in {k \in DOMAIN seq : seq[k] = id /\ 1 < k /\ k < Len(seq)}}

inDegree(links, id) == Cardinality({k \in DOMAIN links : links[k].target = id})
outDegree(links, id) == Cardinality({k \in DOMAIN links : links[k].source = id})

\* source: only outgoing links; sink: only incoming links; other: the rest
TopologyClass(links, id) ==
    IF outDegree(links, id) > 0 /\ inDegree(links, id) = 0 THEN "source"
    ELSE IF inDegree(links, id) > 0 /\ outDegree(links, id) = 0 THEN "sink"
    ELSE "other"

\* the rendered nodes with no status and outside the waypoint sequence
PlainNodes ==
    {id \in DOMAIN nodeStyle :
        /\ NodeDatum(simNodes, id).sentiment \notin {"bearish", "bullish", "volatile", "neutral"}
        /\ \A k \in DOMAIN pathSequence : pathSequence[k] # id}

\* getNodeStyle of the earlier ForceGraph (no status): waypoints first, then
\* the topology styling
getNodeStyle_earlier(id, sequenceNodeIds, links) ==
    IF IndexOf(sequenceNodeIds, id) # 0
    THEN IF IndexOf(sequenceNodeIds, id) = 1 THEN [stroke |-> "#3b82f6", width |-> 50]
         ELSE IF IndexOf(sequenceNodeIds, id) = Len(sequenceNodeIds)
         THEN [stroke |-> "#f97316", width |-> 50]
         ELSE [stroke |-> "#eab308", width |-> 50]
    ELSE IF inDegree(links, id) = 0 /\ outDegree(links, id) > 0
    THEN [stroke |-> "#3b82f6", width |-> 40]
    ELSE IF outDegree(links, id) = 0 /\ inDegree(links, id) > 0
    THEN [stroke |-> "#f97316", width |-> 40]
    ELSE [stroke |-> "#ffffff", width |-> 20]

\* C24: among the rendered nodes with no status and outside the waypoint
\* sequence, the border colour follows the degrees over the current edge
\* set: sources (out-degree > 0, in-degree 0) share one colour, sinks
\* (in-degree > 0, out-degree 0) share a different one, and every other node
\* has the default border, different from both.
C24_TopologyBorder ==
    \A id1, id2 \in PlainNodes :
        (TopologyClass(simLinks, id1) = TopologyClass(simLinks, id2))
            <=> (nodeStyle[id1].stroke = nodeStyle[id2].stroke)

\* the same statement about the borders the earlier ForceGraph computes
C24_TopologyBorderEarlier ==
    \A id1, id2 \in PlainNodes :
        (TopologyClass(simLinks, id1) = TopologyClass(simLinks, id2))
            <=> (getNodeStyle_earlier(id1, pathSequence, simLinks).stroke
                    = getNodeStyle_earlier(id2, pathSequence, simLinks).stroke)

\* ---------------------------------------------------------------------
\* Legend filters: clicks on the groups and effects of the legend, and path
\* mode with its picks, on graphs of two groups and two effects
\* ---------------------------------------------------------------------
FilterGraphs ==
    {[nodes |-> NodeList(<<id_a, id_b, id_c>>),
      links |-> <<Link(id_a, id_c, "drives", "positive"),
                  Link(id_a, id_b, "hedges", "negative")>>],
     [nodes |-> NodeList(<<id_a, id_b, id_c>>),
      links |-> <<Link(id_a, id_b, "drives", "positive"),
                  Link(id_c, id_a, "hedges", "negative"),
                  Link(id_b, id_b, "drives", "neutral")>>]}

InitFilter == \E g \in FilterGraphs : InitLoaded(g)

NextFilter ==
    \/ \E group \in LegendGroups : handleGroupClick(group)
    \/ \E effect \in LegendEffects : handleEffectClick(effect)
    \/ togglePathMode
    \/ \E id \in NodeIdsOf(simNodes) : onNodeClick(id)
    \/ clearPathSequence

SpecFilter == InitFilter /\ [][NextFilter]_vars

\* a rendered node / edge is shown: it does not have the dimmed opacity
NodeShown(id) == opacity.nodes[id] = NODE_OPACITY_ACTIVE
LinkShown(key) == opacity.links[key] # LINK_BASE_OPACITY_DIMMED

\* the group of the store's node with the id
StoreGroup(id) == {graphData.nodes[k].group : k \in {k \in DOMAIN graphData.nodes : graphData.nodes[k].id = id}}

C22_WitnessEffect ==
    /\ ~HasPathHighlight(HighlightedNodes)
    /\ filterState.type = "effect"
    /\ \E k1, k2 \in DOMAIN opacity.links : LinkShown(k1) /\ ~LinkShown(k2)
    /\ \A id \in DOMAIN opacity.nodes : NodeShown(id)

\* ---------------------------------------------------------------------
\* The ranking rounds as the formula states them
\* ---------------------------------------------------------------------
RECURSIVE SumOfTerms(_)
\* the sum of the values v of a set of terms <<key, v>>
SumOfTerms(terms) ==
    IF terms = {} THEN 0
    ELSE LET t == CHOOSE t \in terms : TRUE
         IN  t[2] + SumOfTerms(terms \ {t})

\* the edges out of a node and into a node, self-loops included in both
EdgesOutOf(links, id) == {k \in DOMAIN links : links[k].source = id}
EdgesInto(links, id) == {k \in DOMAIN links : links[k].target = id}

\* the sinks: the nodes with no edge out (an isolated node is one, a node
\* whose only edge is a self-loop is none)
Sinks(nodes, links) == {id \in NodeIdsOf(nodes) : EdgesOutOf(links, id) = {}}

\* one round: (1-d)/N + d * (sum over the inbound edges of
\* sourceScore / sourceOutDegree + sinkMass / N), all from `prev`
FormulaRound(nodes, links, prev) ==
    LET N == Len(nodes)
        sinkMass == SumOfTerms({<<id, ScoreOf(prev, id)>> : id \in Sinks(nodes, links)})
    IN  {<<id, ((100 - dampingFactor) * ScoreScale) \div (100 * N)
               + (dampingFactor *
                    (SumOfTerms({<<k, ScoreOf(prev, links[k].source)
                                       \div Cardinality(EdgesOutOf(links, links[k].source))>> :
                                  k \in EdgesInto(links, id)})
                     + sinkMass \div N)) \div 100>> :
            id \in NodeIdsOf(nodes)}

RECURSIVE FormulaRounds(_, _, _, _)
FormulaRounds(nodes, links, prev, rounds) ==
    IF rounds = 0 THEN prev
    ELSE CHOOSE result \in
            {FormulaRounds(nodes, links, next, rounds - 1) :
                next \in {FormulaRound(nodes, links, prev)}} : TRUE

\* the scores after 20 rounds from 1/N
FormulaScores(nodes, links) ==
    FormulaRounds(nodes, links,
                  {<<id, ScoreScale \div Len(nodes)>> : id \in NodeIdsOf(nodes)}, 20)

RECURSIVE RoundsAgree(_, _, _, _)
\* in each of the next `rounds` passes from `prev` the pass of the code
\* yields the scores of the formula
RoundsAgree(nodes, links, prev, rounds) ==
    \/ rounds = 0
    \/ \E next \in {NewRanks(nodes, links, prev)} :
          /\ next = FormulaRound(nodes, links, prev)
          /\ RoundsAgree(nodes, links, next, rounds - 1)

\* C25: the ranks stored for a node list with valid edges are the rescaled
\* scores of 20 rounds in which every node's new score is computed from the
\* previous round's scores only, as (1-d)/N + d * (sum over inbound edges of
\* sourceScore / sourceOutDegree + sinkMass / N) with d = 0.85; sinkMass is
\* the previous-round total of the nodes with out-degree 0, an isolated node
\* is a sink, and a self-loop is both an outbound and an inbound edge of its
\* node; each pass of the code agrees with the formula round by round.
C25_RoundsFromPreviousScores ==
    RankedValid =>
      /\ RoundsAgree(graphData.nodes, graphData.links,
                     {<<id, ScoreScale \div Len(graphData.nodes)>> :
                        id \in NodeIdsOf(graphData.nodes)}, iterations)
      /\ \A i \in DOMAIN graphData.nodes :
            graphData.nodes[i].rank =
                NormalRank(FormulaScores(graphData.nodes, graphData.links),
                           graphData.nodes[i].id)

\* a ranked graph of three nodes with a self-loop on one node and an
\* isolated node: the looping node holds rank 100 and the isolated one rank 0
C25_Witness ==
    /\ RankedValid
    /\ Len(graphData.nodes) = 3
    /\ \E i, j \in DOMAIN graphData.nodes :
          /\ \E k \in DOMAIN graphData.links :
                /\ graphData.links[k].source = graphData.nodes[i].id
                /\ graphData.links[k].target = graphData.nodes[i].id
          /\ graphData.nodes[i].rank = 100
          /\ EdgesOutOf(graphData.links, graphData.nodes[j].id) = {}
          /\ EdgesInto(graphData.links, graphData.nodes[j].id) = {}
          /\ graphData.nodes[j].rank = 0

\* ---------------------------------------------------------------------
\* The modes of the App under toggles, searches, note submissions and clicks
\* ---------------------------------------------------------------------
InitModes == InitLoaded(ViewGraph)

\* the generated graphs of this scenario: node lists without links
ModeResponses == {resp \in GenResponses : resp.links = <<>>}

NextModes ==
    \/ togglePathMode
    \/ toggleSimMode
    \/ handleSearch
    \/ handleNoteSubmit
    \/ \E i \in DOMAIN inflight : \E resp \in ModeResponses : SearchResponse(i, resp)
    \/ \E i \in DOMAIN inflight : \E resp \in ModeResponses : NoteResponse(i, resp)
    \/ \E id \in NodeIdsOf(simNodes) : onNodeClick(id)
    \/ \E i \in DOMAIN inflight : \E impacted \in ImpactResponses : SimulateResponse(i, impacted)
    \/ resetHealth

SpecModes == InitModes /\ [][NextModes]_vars

\* C26: path mode and simulation mode are never on together, and a step
\* that turns one of them on leaves the other off and the waypoint sequence empty.
C26_ModesExclusive ==
    [][/\ ~(isPathMode /\ isSimMode)
       /\ ~(isPathMode' /\ isSimMode')
       /\ (~isPathMode /\ isPathMode') => (~isSimMode' /\ pathSequence' = <<>>)
       /\ (~isSimMode /\ isSimMode') => (~isPathMode' /\ pathSequence' = <<>>)]_vars

\* path mode is on while the impact simulation started in simulation mode is
\* still pending: the path toggle has turned the simulation mode off
C26_Witness ==
    /\ isPathMode /\ ~isSimMode
    /\ \E i \in DOMAIN inflight : inflight[i].kind = "simulate"

\* simulation mode is on with a result after path mode had waypoints: the
\* simulation toggle has emptied the sequence
C26_WitnessSim ==
    /\ isSimMode /\ ~isPathMode
    /\ simulationResult = "result"
    /\ pathSequence = <<>>

\* C27: every waypoint of the path sequence is the id of a node of the store
C27_WaypointsInStore ==
    \A k \in DOMAIN pathSequence : pathSequence[k] \in NodeIdsOf(graphData.nodes)

\* C28: with simulation mode off no node of the store carries a status
C28_NoStatusOutsideSimMode ==
    ~isSimMode =>
        \A i \in DOMAIN graphData.nodes :
            graphData.nodes[i].sentiment \in {"absent", "undefined"}

\* ---------------------------------------------------------------------
\* Graph-replacing requests in flight at once
\* ---------------------------------------------------------------------
\* graph requests that may be pending together
MaxRacing == 2

\* Enter in the search field and the submit of the note dialog: neither is
\* disabled while a graph request is pending (only the search button is).
\* The requests pending at that moment are marked as superseded.
handleSearchEnter == IssueGraphRequest("search", MaxRacing, Superseded(inflight))
handleNoteSubmitAgain == IssueGraphRequest("note", MaxRacing, Superseded(inflight))

InitRace == InitWith(NoResearch)

NextRace ==
    \/ handleSearchEnter
    \/ handleNoteSubmitAgain
    \/ \E i \in DOMAIN inflight : \E resp \in GenResponses : SearchResponse(i, resp)
    \/ \E i \in DOMAIN inflight : \E resp \in GenResponses : NoteResponse(i, resp)

SpecRace == InitRace /\ [][NextRace]_vars

\* the response that resumes here belongs to a request that a newer graph
\* request has superseded, and no newer graph request is still pending
LateResponse(i) ==
    /\ i \in DOMAIN inflight
    /\ Len(inflight') = Len(inflight) - 1
    /\ inflight' = Resume(i)
    /\ inflight[i].superseded
    /\ \A k \in DOMAIN inflight : k > i => inflight[k].kind \notin {"search", "note"}

\* C29: a response to a graph request that is not the one issued last, arriving
\* after the response to a newer request, does not replace the graph: the
\* store ends with the response to the request issued last.
C29_LastIssuedWins ==
    [][\A i \in DOMAIN inflight : LateResponse(i) => graphData' = graphData]_vars

\* ---------------------------------------------------------------------
\* Data updates under an active group filter or path highlight
\* ---------------------------------------------------------------------
\* the node / the edge is one that the active mode keeps visible
MatchesMode(id) ==
    IF HasPathHighlight(HighlightedNodes) THEN id \in HighlightedNodes.ids
    ELSE StoreGroup(id) = {filterState.value}
LinkMatchesMode(key) ==
    IF HasPathHighlight(HighlightedNodes)
    THEN ~HighlightedLinks.isNull /\ PairKey(key[1], key[2]) \in HighlightedLinks.ids
    ELSE StoreGroup(key[1]) = {filterState.value} /\ StoreGroup(key[2]) = {filterState.value}

\* C30: while a group filter or a path highlight is active, every rendered
\* node and edge, those that entered with the last data update included, has
\* the opacity the mode prescribes: what does not match the filter or is not
\* on the path is dimmed, what matches is not.
C30_EnteredElementsFollowMode ==
    (simExists /\ ~crashed
     /\ (HasPathHighlight(HighlightedNodes) \/ filterState.type = "group")) =>
        /\ \A id \in DOMAIN opacity.nodes :
              opacity.nodes[id] =
                  IF MatchesMode(id) THEN NODE_OPACITY_ACTIVE ELSE NODE_OPACITY_DIMMED
        /\ \A key \in DOMAIN opacity.links :
              (opacity.links[key] = LINK_BASE_OPACITY_DIMMED) <=> ~LinkMatchesMode(key)

====
